---- MODULE Spec2Model ----
(***************************************************************************)
(* Model of the 4-oscillator wavetable instrument: the wtgen loader        *)
(* (JSON envelope + HNFPv1 framepack decode), the wavetable slot store     *)
(* guarded by wtLock, plugin state save/restore, and the voice pool that   *)
(* renders from per-call snapshots of the store.                           *)
(*                                                                         *)
(* Source modelled: src/unnamed/part_002 (PluginProcessor.cpp, the version *)
(* that matches the header src/unnamed/part_001).                          *)
(***************************************************************************)
EXTENDS Integers, Sequences, FiniteSets, TLC

\* ------------------------------------------------------------------------
\* Program constants
\* ------------------------------------------------------------------------
NumSlots == 4
numVoices == 8
HeaderBytes == 15
ReservedWords == 3

Slots == 0 .. (NumSlots - 1)
Voices == 0 .. (numVoices - 1)

\* static constexpr uint8 magic[7] = { 'H','N','F','P','v','1','\0' }
magic == <<72, 78, 70, 80, 118, 49, 0>>

\* ------------------------------------------------------------------------
\* Strings.  A file name is the sequence of its dot-separated components;
\* the empty juce::String is the empty sequence.
\* ------------------------------------------------------------------------
EmptyName == << >>
DefaultName == <<"Wavetable">>

\* juce::File::getFileName
getFileName(f) == f.name

\* juce::File::getFileNameWithoutExtension: drops the last extension only
getFileNameWithoutExtension(f) ==
    IF Len(f.name) > 1 THEN SubSeq(f.name, 1, Len(f.name) - 1) ELSE f.name

\* ------------------------------------------------------------------------
\* Little-endian readers.  bytes is a sequence over 0..255; byte offset off
\* (0-based, as in the code) is element off+1 of the sequence.
\* ------------------------------------------------------------------------
canRead(bytes, off, n) == (off + n) <= Len(bytes) /\ Len(bytes) > 0

\* returns the value read and the new offset; 0 and the old offset when the
\* two bytes are not there
readLEU16(bytes, off) ==
    IF ~canRead(bytes, off, 2)
    THEN [v |-> 0, off |-> off]
    ELSE [v |-> (bytes[off + 1] + 256 * bytes[off + 2]) % 65536, off |-> off + 2]

readLEI16(bytes, off) ==
    LET r == readLEU16(bytes, off)
    IN  [v |-> IF r.v >= 32768 THEN r.v - 65536 ELSE r.v, off |-> r.off]

\* n consecutive readLEU16 calls starting at off
RECURSIVE readU16s(_, _, _)
readU16s(bytes, off, n) ==
    IF n = 0 THEN [vals |-> << >>, off |-> off]
    ELSE LET r == readLEU16(bytes, off)
             rest == readU16s(bytes, r.off, n - 1)
         IN  [vals |-> <<r.v>> \o rest.vals, off |-> rest.off]

\* n consecutive readLEI16 calls starting at off
RECURSIVE readI16s(_, _, _)
readI16s(bytes, off, n) ==
    IF n = 0 THEN [vals |-> << >>, off |-> off]
    ELSE LET r == readLEI16(bytes, off)
             rest == readI16s(bytes, r.off, n - 1)
         IN  [vals |-> <<r.v>> \o rest.vals, off |-> rest.off]

\* ------------------------------------------------------------------------
\* Arithmetic helpers of the decoder
\* ------------------------------------------------------------------------
jmax(a, b) == IF a >= b THEN a ELSE b
jmin(a, b) == IF a <= b THEN a ELSE b
jlimit(lo, hi, x) == IF x < lo THEN lo ELSE IF x > hi THEN hi ELSE x

RECURSIVE Pow2(_)
Pow2(e) == IF e = 0 THEN 1 ELSE 2 * Pow2(e - 1)

\* (int) std::round (std::log2 ((double) x)) for 1 <= x <= 65535: the
\* exponent e with 2^(e-1/2) <= x < 2^(e+1/2).  RoundUpAt[e] is the least
\* integer above 2^(e-1/2) (no integer lies on a boundary), so the rounded
\* logarithm is the number of boundaries at or below x.
RoundUpAt ==
    <<2, 3, 6, 12, 23, 46, 91, 182, 363, 725, 1449, 2897, 5793, 11586, 23171, 46341>>

RoundLog2(x) == Cardinality({e \in 1 .. Len(RoundUpAt) : RoundUpAt[e] <= x})

\* variant: the test compares with >= instead of ==
IsShiftOfRoundLog2_AtLeast(x) == x >= Pow2(RoundLog2(x))

\* the header test  tableSize != (1 << round(log2(tableSize)))  negated
IsShiftOfRoundLog2(x) == x = Pow2(RoundLog2(x))

\* The interior edge i is  loBin + (int) floor (t * total)  with the double
\* t = i / bands.  When bands is not a power of two t is a rounded quotient,
\* and where i * total / bands is a whole number the double product can land
\* just below it (1.0 / 49.0 * 49.0 < 1.0), the floor being then one less.
\* These are the interior edges at which that can happen.
InexactEdges(loBin0, hiBin0, bands0) ==
    LET bands == jmax(1, bands0)
        loBin == jmax(0, loBin0)
        hiBin == jmax(loBin, hiBin0)
        total == hiBin - loBin
    IN  { i \in 1 .. (bands - 1) : /\ ~IsShiftOfRoundLog2(bands)
                                   /\ i * total > 0
                                   /\ (i * total) % bands = 0 }

\* a variant whose interior edges leave out loBin
linearBandEdgesRounded_NoOffset(loBin0, hiBin0, bands0, low) ==
    LET bands == jmax(1, bands0)
        loBin == jmax(0, loBin0)
        hiBin == jmax(loBin, hiBin0)
        total == hiBin - loBin
    IN  [i \in 1 .. (bands + 1) |->
            IF i = 1 THEN loBin
            ELSE IF i = bands + 1 THEN hiBin
            ELSE (((i - 1) * total) \div bands)
                 - (IF (i - 1) \in low THEN 1 ELSE 0)]

\* linearBandEdges with the interior edges of low floored one below the
\* exact quotient
linearBandEdgesRounded(loBin0, hiBin0, bands0, low) ==
    LET bands == jmax(1, bands0)
        loBin == jmax(0, loBin0)
        hiBin == jmax(loBin, hiBin0)
        total == hiBin - loBin
    IN  [i \in 1 .. (bands + 1) |->
            IF i = 1 THEN loBin
            ELSE IF i = bands + 1 THEN hiBin
            ELSE loBin + (((i - 1) * total) \div bands)
                 - (IF (i - 1) \in low THEN 1 ELSE 0)]

\* linearBandEdges: bands+1 edges, edge[i] = lo + floor(i/bands * total);
\* for the sizes the decoder is run with here every product is exact
linearBandEdges(loBin0, hiBin0, bands0) ==
    linearBandEdgesRounded(loBin0, hiBin0, bands0, {})

\* ------------------------------------------------------------------------
\* Wavetable objects.  A null Wavetable::Ptr is NullWt.  The sample matrix
\* is kept as what the decoder feeds to the reconstruction: per frame, the
\* magnitude of every rfft bin 0..N/2, as the code that produced it.
\* ------------------------------------------------------------------------
NullWt == [isNull |-> TRUE, tableSize |-> 0, frames |-> 0, name |-> EmptyName, table |-> << >>]

MagZero == [src |-> "zero", code |-> 0]
MagHarm(q) == [src |-> "harm", code |-> q]
MagNoise(qdb) == [src |-> "noise", code |-> qdb]

\* ------------------------------------------------------------------------
\* Error messages of the loader
\* ------------------------------------------------------------------------
ErrNone == ""
ErrSlot == "Invalid slot"
ErrNoFile == "File does not exist"
ErrRead == "Failed to read file"
ErrParse == "JSON parse failed"
ErrSchema == "Invalid schema (expected wtgen-1)"
ErrOp == "Unsupported program.nodes[0].op (expected spectralData)"
ErrCodec == "Unsupported codec (expected harm-noise-framepack-v1)"
ErrData == "Missing program.nodes[0].p.data"
ErrB64 == "Base64 decode failed"
ErrSmall == "Corrupt data (too small)"
ErrMagic == "Invalid magic (expected HNFPv1\\0)"
ErrHeader == "Invalid header (tableSize/frames)"
ErrHB == "Invalid header (H/B)"
ErrPow2 == "tableSize must be power-of-two (for FFT)"
ErrTrunc == "Corrupt data (truncated framepack)"
ErrRecon == "Minimum-phase reconstruction failed"

\* ------------------------------------------------------------------------
\* minimumPhaseFromMagRfft: the guards of the routine (the FFT arithmetic
\* itself is not modelled): N > 0, the magnitude array has N/2+1 entries,
\* and N == 1 << round(log2(N)).
\* ------------------------------------------------------------------------
\* variant: the length of the magnitude array is not tested
minimumPhaseFromMagRfft_NoLengthTest(magLen, N) ==
    /\ N > 0
    /\ IsShiftOfRoundLog2(N)

minimumPhaseFromMagRfft(magLen, N) ==
    /\ N > 0
    /\ magLen = (N \div 2) + 1
    /\ IsShiftOfRoundLog2(N)

\* ------------------------------------------------------------------------
\* One frame of the framepack: H harmonic codes, B noise codes, 3 reserved
\* words, read from off; the magnitude array after the frame's writes.
\* ------------------------------------------------------------------------
decodeFrame(bytes, off, N, H, B, edges) ==
    LET nBins == (N \div 2) + 1
        hs == readU16s(bytes, off, H)
        ns == readI16s(bytes, hs.off, B)
        rs == readU16s(bytes, ns.off, ReservedWords)
        \* noise bands that write bin k:  for (k = a; k < c && k < nBins; ++k)
        bandsOf(k) == {b \in 0 .. (B - 1) : edges[b + 1] <= k /\ k < edges[b + 2]}
        lastBand(k) == CHOOSE b \in bandsOf(k) : \A c \in bandsOf(k) : c <= b
        mag == [k \in 0 .. (nBins - 1) |->
                  IF k = 0 THEN MagZero                            \* mag[0] = 0
                  ELSE IF nBins > 1 /\ k = nBins - 1 THEN MagZero  \* Nyquist = 0
                  ELSE IF bandsOf(k) # {} THEN MagNoise(ns.vals[lastBand(k) + 1])
                  ELSE IF k >= 1 /\ k <= H THEN MagHarm(hs.vals[k])
                  ELSE MagZero]
    IN  [mag |-> mag, off |-> rs.off]

RECURSIVE decodeFrames(_, _, _, _, _, _, _)
decodeFrames(bytes, off, N, F, H, B, edges) ==
    IF F = 0 THEN [rows |-> << >>, off |-> off, ok |-> TRUE]
    ELSE LET fr == decodeFrame(bytes, off, N, H, B, edges)
         IN  IF ~minimumPhaseFromMagRfft((N \div 2) + 1, N)
             THEN [rows |-> << >>, off |-> fr.off, ok |-> FALSE]
             ELSE LET rest == decodeFrames(bytes, fr.off, N, F - 1, H, B, edges)
                  IN  [rows |-> <<fr.mag>> \o rest.rows, off |-> rest.off, ok |-> rest.ok]

\* ------------------------------------------------------------------------
\* The JSON document of a .wtgen.json file, as the fields the loader reads
\* from it.  data.b64 is "missing" (no string at program.nodes[0].p.data),
\* "bad" (not base64) or "ok" (decodes to data.bytes).  tableSize and frames
\* are the dimensions the document declares at program.nodes[0].p (0 when
\* it declares none); the loader does not read them.
\* ------------------------------------------------------------------------
EmptyText ==
    [empty |-> TRUE, parses |-> FALSE, schema |-> "", op |-> "", codec |-> "",
     data |-> [b64 |-> "missing", bytes |-> << >>], loBin |-> 0, hiBin |-> 0,
     tableSize |-> 0, frames |-> 0]

BuildFail(e, o) == [ok |-> FALSE, err |-> e, wt |-> NullWt, off |-> o]

\* header fields as the four readLEU16 calls deliver them
readHeader(bytes) ==
    LET t == readLEU16(bytes, Len(magic))
        f == readLEU16(bytes, t.off)
        h == readLEU16(bytes, f.off)
        b == readLEU16(bytes, h.off)
    IN  [tableSize |-> t.v, F |-> f.v, H |-> h.v, B |-> b.v, off |-> b.off]

\* size_t perFrameBytes = H*2 + B*2 + 3*2
perFrameBytes(H, B) == H * 2 + B * 2 + ReservedWords * 2

\* variant: the frame count is left out of the expected size
expectedMin_OneFrame(F, H, B) == Len(magic) + 4 * 2 + perFrameBytes(H, B)

\* size_t expectedMin = sizeof (magic) + 4*2 + F * perFrameBytes
expectedMin(F, H, B) == Len(magic) + 4 * 2 + F * perFrameBytes(H, B)

\* the part of buildWavetableFromWtgenJson that works on the decoded bytes
buildFromBytes(json, nameHint) ==
    LET bytes == json.data.bytes
        size == Len(bytes)
    IN  IF ~canRead(bytes, 0, Len(magic)) THEN BuildFail(ErrSmall, 0)
        ELSE IF SubSeq(bytes, 1, Len(magic)) # magic THEN BuildFail(ErrMagic, 0)
        ELSE
        LET hd == readHeader(bytes)
            tableSize == hd.tableSize
            F == hd.F
            H == hd.H
            B == hd.B
        IN  IF tableSize <= 0 \/ F <= 0 THEN BuildFail(ErrHeader, hd.off)
            ELSE IF H < 0 \/ B < 0 THEN BuildFail(ErrHB, hd.off)
            ELSE IF ~IsShiftOfRoundLog2(tableSize) THEN BuildFail(ErrPow2, hd.off)
            ELSE
            LET N == tableSize
                nBins == (N \div 2) + 1
                hiBin == IF json.hiBin <= 0 THEN nBins - 1 ELSE json.hiBin
                loBin == IF json.loBin <= 0 THEN jlimit(0, nBins - 1, H + 1) ELSE json.loBin
                edges == linearBandEdges(loBin, hiBin, jmax(1, B))
            IN  IF size < expectedMin(F, H, B) THEN BuildFail(ErrTrunc, hd.off)
                ELSE
                LET dec == decodeFrames(bytes, hd.off, N, F, H, B, edges)
                IN  IF ~dec.ok THEN BuildFail(ErrRecon, dec.off)
                    ELSE [ok |-> TRUE, err |-> ErrNone, off |-> dec.off,
                          wt |-> [isNull |-> FALSE,
                                  tableSize |-> tableSize,
                                  frames |-> F,
                                  name |-> IF nameHint # EmptyName THEN nameHint
                                                                   ELSE DefaultName,
                                  table |-> dec.rows]]

\* buildWavetableFromWtgenJson (jsonText, nameHint, outWt, err)
buildWavetableFromWtgenJson(json, nameHint) ==
    IF json.empty \/ ~json.parses THEN BuildFail(ErrParse, 0)
    ELSE IF json.schema # "wtgen-1" THEN BuildFail(ErrSchema, 0)
    ELSE IF json.op # "spectralData" THEN BuildFail(ErrOp, 0)
    ELSE IF json.codec # "harm-noise-framepack-v1" THEN BuildFail(ErrCodec, 0)
    ELSE IF json.data.b64 = "missing" THEN BuildFail(ErrData, 0)
    ELSE IF json.data.b64 # "ok" THEN BuildFail(ErrB64, 0)
    ELSE buildFromBytes(json, nameHint)

\* ------------------------------------------------------------------------
\* Input files.  A framepack payload is written as the exporter writes it
\* (little-endian words), then cut or altered to make the failing inputs.
\* ------------------------------------------------------------------------
U16LE(x) == <<x % 256, (x \div 256) % 256>>

RECURSIVE FrameBytes(_, _, _, _)
\* the bytes of frame f: harmonic code 4096 + f for each harmonic, noise
\* code -12 (i16) for each band, three zero reserved words
FrameBytes(f, H, B, i) ==
    IF i >= H + B + ReservedWords THEN << >>
    ELSE (IF i < H THEN U16LE(4096 + f)
          ELSE IF i < H + B THEN U16LE(65536 - 12)
          ELSE U16LE(0)) \o FrameBytes(f, H, B, i + 1)

RECURSIVE FramesBytes(_, _, _, _)
FramesBytes(f, F, H, B) ==
    IF f >= F THEN << >> ELSE FrameBytes(f, H, B, 0) \o FramesBytes(f + 1, F, H, B)

Payload(ts, F, H, B) ==
    magic \o U16LE(ts) \o U16LE(F) \o U16LE(H) \o U16LE(B) \o FramesBytes(0, F, H, B)

Cut(bytes, n) == SubSeq(bytes, 1, jmin(n, Len(bytes)))

GoodDoc(bytes) ==
    [empty |-> FALSE, parses |-> TRUE, schema |-> "wtgen-1", op |-> "spectralData",
     codec |-> "harm-noise-framepack-v1", data |-> [b64 |-> "ok", bytes |-> bytes],
     loBin |-> 0, hiBin |-> 0, tableSize |-> 0, frames |-> 0]

\* a good document that declares the dimensions ts x fr in its metadata
DocDeclaring(bytes, ts, fr) == [GoodDoc(bytes) EXCEPT !.tableSize = ts, !.frames = fr]

FileOf(nm, doc) == [exists |-> TRUE, name |-> nm, text |-> doc]

\* ------------------------------------------------------------------------
\* State
\* ------------------------------------------------------------------------
VARIABLES
    wtSlots,      \* std::array<Wavetable::Ptr, 4>
    wtSlotName,   \* std::array<juce::String, 4>
    wtSlotJson,   \* std::array<juce::String, 4>
    wtLock,       \* juce::SpinLock: "free", or the context that holds it
    ctl,          \* the control context: the call it is in and where
    pre,          \* the store as it was when the control context's call began
    saved,        \* the last block written by getStateInformation
    voice,        \* the 8 WavetableVoice objects of the juce::Synthesiser
    order,        \* the active voices, oldest noteOnTime first
    sampleRate,   \* the synthesiser's (and every voice's) playback rate
    params,       \* the APVTS parameter values the voices poll
    au,           \* the audio context: where processBlock is
    ev,           \* what the audio context's last step did to the voices
    heap,         \* the lifetime of the Wavetable objects (reference counts)
    calc          \* a call of one of the pure routines: arguments and result

storeVars == <<wtSlots, wtSlotName, wtSlotJson, wtLock, ctl, pre, saved>>

\* what getStateInformation writes / setStateInformation is given.
\* kind: "none" (nothing saved yet), "garbage" (getXmlFromBinary gives null),
\* "wrongtag" (an XML tree of another type), "ok"
StateBlock(k, j, n) == [kind |-> k, json |-> j, name |-> n]
NoState == StateBlock("none", [i \in Slots |-> EmptyText], [i \in Slots |-> EmptyName])
GarbageState == StateBlock("garbage", [i \in Slots |-> EmptyText], [i \in Slots |-> EmptyName])
WrongTagState == StateBlock("wrongtag", [i \in Slots |-> EmptyText], [i \in Slots |-> EmptyName])

Store == [slots |-> wtSlots, json |-> wtSlotJson, name |-> wtSlotName]

CtlIdle(op, slot, json, ok, err, st) ==
    [pc |-> "idle", op |-> op, slot |-> slot, json |-> json, name |-> EmptyName,
     hint |-> EmptyName, wt |-> NullWt, ok |-> ok, err |-> err, st |-> st]

StoreInit ==
    /\ wtSlots = [i \in Slots |-> NullWt]
    /\ wtSlotName = [i \in Slots |-> EmptyName]
    /\ wtSlotJson = [i \in Slots |-> EmptyText]
    /\ wtLock = "free"
    /\ ctl = CtlIdle("none", 0, EmptyText, TRUE, ErrNone, NoState)
    /\ pre = [slots |-> [i \in Slots |-> NullWt],
              json |-> [i \in Slots |-> EmptyText],
              name |-> [i \in Slots |-> EmptyName]]
    /\ saved = NoState

\* ------------------------------------------------------------------------
\* loadWtgenSlot (slot, file, err)
\* ------------------------------------------------------------------------
\* variant: the lock scope opens at the top of the function
loadWtgenSlotEnter_LockFirst(slot, file) ==
    /\ ctl.pc = "idle"
    /\ wtLock = "free"
    /\ pre' = Store
    /\ IF ~(slot >= 0 /\ slot < NumSlots)
       THEN ctl' = CtlIdle("load", slot, file.text, FALSE, ErrSlot, NoState) /\ wtLock' = wtLock
       ELSE IF ~file.exists
       THEN ctl' = CtlIdle("load", slot, file.text, FALSE, ErrNoFile, NoState) /\ wtLock' = wtLock
       ELSE IF file.text.empty
       THEN ctl' = CtlIdle("load", slot, file.text, FALSE, ErrRead, NoState) /\ wtLock' = wtLock
       ELSE /\ ctl' = [pc |-> "build", op |-> "load", slot |-> slot, json |-> file.text,
                       name |-> getFileName(file),
                       hint |-> getFileNameWithoutExtension(file),
                       wt |-> NullWt, ok |-> FALSE, err |-> ErrNone, st |-> NoState]
            /\ wtLock' = "ctl"
    /\ UNCHANGED <<wtSlots, wtSlotName, wtSlotJson, saved>>

\* entry: err.clear(), the slot test, file.existsAsFile(), loadFileAsString()
loadWtgenSlotEnter(slot, file) ==
    /\ ctl.pc = "idle"
    /\ pre' = Store
    /\ IF ~(slot >= 0 /\ slot < NumSlots)
       THEN ctl' = CtlIdle("load", slot, file.text, FALSE, ErrSlot, NoState)
       ELSE IF ~file.exists
       THEN ctl' = CtlIdle("load", slot, file.text, FALSE, ErrNoFile, NoState)
       ELSE IF file.text.empty
       THEN ctl' = CtlIdle("load", slot, file.text, FALSE, ErrRead, NoState)
       ELSE ctl' = [pc |-> "build", op |-> "load", slot |-> slot, json |-> file.text,
                    name |-> getFileName(file),
                    hint |-> getFileNameWithoutExtension(file),
                    wt |-> NullWt, ok |-> FALSE, err |-> ErrNone, st |-> NoState]
    /\ UNCHANGED <<wtSlots, wtSlotName, wtSlotJson, wtLock, saved>>

\* variant: the result of the build is not tested, the store follows anyway
loadWtgenSlotBuild_Unchecked ==
    /\ ctl.pc = "build" /\ ctl.op = "load"
    /\ LET r == buildWavetableFromWtgenJson(ctl.json, ctl.hint)
       IN  ctl' = [ctl EXCEPT !.pc = "lock", !.wt = r.wt]
    /\ UNCHANGED <<wtSlots, wtSlotName, wtSlotJson, wtLock, pre, saved>>

\* Wavetable::Ptr wt; if (! buildWavetableFromWtgenJson (...)) return false;
\* runs with wtLock not taken
loadWtgenSlotBuild ==
    /\ ctl.pc = "build" /\ ctl.op = "load"
    /\ LET r == buildWavetableFromWtgenJson(ctl.json, ctl.hint)
       IN  IF r.ok
           THEN ctl' = [ctl EXCEPT !.pc = "lock", !.wt = r.wt]
           ELSE ctl' = CtlIdle("load", ctl.slot, ctl.json, FALSE, r.err, NoState)
    /\ UNCHANGED <<wtSlots, wtSlotName, wtSlotJson, wtLock, pre, saved>>

\* const juce::SpinLock::ScopedLockType sl (wtLock);
StoreLock(op) ==
    /\ ctl.pc = "lock" /\ ctl.op = op
    /\ wtLock = "free"
    /\ wtLock' = "ctl"
    /\ ctl' = [ctl EXCEPT !.pc = "cs1"]
    /\ UNCHANGED <<wtSlots, wtSlotName, wtSlotJson, pre, saved>>

\* ------------------------------------------------------------------------
\* Wavetable objects are juce::ReferenceCountedObjects: an object is deleted
\* by the context that drops its last Ptr, at that statement.  The Ptrs to
\* the object of slot i are wtSlots[i] and, while a voice's renderNextBlock
\* is between its snapshot and its return, the entry i of its local array
\* wts, if the slot was not assigned since the snapshot.
\*   stale  the slots assigned since the snapshot of the renderNextBlock
\*          call in progress                                       (history)
\*   last   the latest deletion of a Wavetable: by whom, and whether the
\*          deleting context held wtLock                           (history)
\* ------------------------------------------------------------------------
NoDeletion == [by |-> "none", locked |-> FALSE]
Deletion(who, held) == [by |-> who, locked |-> held]

HeapInit == heap = [stale |-> {}, last |-> NoDeletion]

\* the local array wts of a renderNextBlock call is alive
SnapshotAlive == au.pc = "samples"

\* wtSlots[slot] = wt drops the slot's Ptr to the old object: the object is
\* deleted there unless the live snapshot still points to it
releaseOnAssign(slot) ==
    IF wtSlots[slot].isNull THEN heap.last
    ELSE IF SnapshotAlive /\ slot \notin heap.stale THEN heap.last
    ELSE Deletion("ctl", wtLock = "ctl")

\* the end of renderNextBlock destroys wts: the objects that the store has
\* dropped since the snapshot are deleted there
releaseOnReturn ==
    IF \E i \in heap.stale : ~au.snap[i].isNull
    THEN Deletion("audio", wtLock = "audio")
    ELSE heap.last

\* variant: the table is stored one slot further on
StoreWt_NextSlot(op) ==
    /\ ctl.pc = "cs1" /\ ctl.op = op
    /\ wtSlots' = [wtSlots EXCEPT ![(ctl.slot + 1) % NumSlots] = ctl.wt]
    /\ ctl' = [ctl EXCEPT !.pc = "cs2"]
    /\ heap' = [stale |-> IF SnapshotAlive THEN heap.stale \cup {ctl.slot} ELSE {},
                last |-> releaseOnAssign(ctl.slot)]
    /\ UNCHANGED <<wtSlotName, wtSlotJson, wtLock, pre, saved>>

\* wtSlots[slot] = wt;
StoreWt(op) ==
    /\ ctl.pc = "cs1" /\ ctl.op = op
    /\ wtSlots' = [wtSlots EXCEPT ![ctl.slot] = ctl.wt]
    /\ ctl' = [ctl EXCEPT !.pc = "cs2"]
    /\ heap' = [stale |-> IF SnapshotAlive THEN heap.stale \cup {ctl.slot} ELSE {},
                last |-> releaseOnAssign(ctl.slot)]
    /\ UNCHANGED <<wtSlotName, wtSlotJson, wtLock, pre, saved>>

\* variant: the locked scope ends after the JSON text is stored
StoreJson_ThenUnlock(op) ==
    /\ ctl.pc = "cs2" /\ ctl.op = op
    /\ wtSlotJson' = [wtSlotJson EXCEPT ![ctl.slot] = ctl.json]
    /\ wtLock' = "free"
    /\ ctl' = [ctl EXCEPT !.pc = "cs3"]
    /\ UNCHANGED <<wtSlots, wtSlotName, pre, saved>>

\* wtSlotJson[slot] = jsonText;
StoreJson(op) ==
    /\ ctl.pc = "cs2" /\ ctl.op = op
    /\ wtSlotJson' = [wtSlotJson EXCEPT ![ctl.slot] = ctl.json]
    /\ ctl' = [ctl EXCEPT !.pc = "cs3"]
    /\ UNCHANGED <<wtSlots, wtSlotName, wtLock, pre, saved>>

\* wtSlotName[slot] = name;
StoreName(op) ==
    /\ ctl.pc = "cs3" /\ ctl.op = op
    /\ wtSlotName' = [wtSlotName EXCEPT ![ctl.slot] = ctl.name]
    /\ ctl' = [ctl EXCEPT !.pc = "unlock"]
    /\ UNCHANGED <<wtSlots, wtSlotJson, wtLock, pre, saved>>

loadWtgenSlotLock == StoreLock("load")
loadWtgenSlotStoreWt == StoreWt("load")
loadWtgenSlotStoreJson == StoreJson("load")
loadWtgenSlotStoreName == StoreName("load")

\* end of the locked scope, then return true
loadWtgenSlotReturn ==
    /\ ctl.pc = "unlock" /\ ctl.op = "load"
    /\ wtLock' = "free"
    /\ ctl' = CtlIdle("load", ctl.slot, ctl.json, TRUE, ErrNone, NoState)
    /\ UNCHANGED <<wtSlots, wtSlotName, wtSlotJson, pre, saved>>

\* ------------------------------------------------------------------------
\* getWtSlotJson / getWtSlotName: a locked read of one entry
\* ------------------------------------------------------------------------
getWtSlotJson(slot) == IF slot >= 0 /\ slot < NumSlots THEN wtSlotJson[slot] ELSE EmptyText
getWtSlotName(slot) == IF slot >= 0 /\ slot < NumSlots THEN wtSlotName[slot] ELSE EmptyName

\* getStateInformation: the 8 locked reads, written into the block
getStateInformation ==
    /\ ctl.pc = "idle"
    /\ wtLock = "free"
    /\ saved' = StateBlock("ok", [i \in Slots |-> getWtSlotJson(i)],
                                 [i \in Slots |-> getWtSlotName(i)])
    /\ pre' = Store
    /\ ctl' = CtlIdle("save", 0, EmptyText, TRUE, ErrNone, NoState)
    /\ UNCHANGED <<wtSlots, wtSlotName, wtSlotJson, wtLock>>

\* ------------------------------------------------------------------------
\* setStateInformation (data, sizeInBytes)
\* ------------------------------------------------------------------------
\* the slot loop, from slot i on: skip the slots whose saved JSON is empty
RestoreAt(st, i) ==
    IF i >= NumSlots
    THEN CtlIdle("restore", 0, EmptyText, TRUE, ErrNone, st)
    ELSE [pc |-> "build", op |-> "restore", slot |-> i, json |-> st.json[i],
          name |-> st.name[i], hint |-> st.name[i],
          wt |-> NullWt, ok |-> FALSE, err |-> ErrNone, st |-> st]

\* entry: getXmlFromBinary, hasTagName, replaceState, then the loop starts
setStateInformationEnter(st) ==
    /\ ctl.pc = "idle"
    /\ st.kind # "none"
    /\ pre' = Store
    /\ IF st.kind # "ok"
       THEN ctl' = CtlIdle("restore", 0, EmptyText, FALSE, ErrNone, st)
       ELSE ctl' = RestoreAt(st, 0)
    /\ UNCHANGED <<wtSlots, wtSlotName, wtSlotJson, wtLock, saved>>

\* one turn of the loop up to the lock: json.isNotEmpty(), then
\* buildWavetableFromWtgenJson (json, nameHint, wt, err) with wtLock not taken
setStateInformationBuild ==
    /\ ctl.pc = "build" /\ ctl.op = "restore"
    /\ IF ctl.json.empty
       THEN ctl' = RestoreAt(ctl.st, ctl.slot + 1)
       ELSE LET r == buildWavetableFromWtgenJson(ctl.json, ctl.hint)
            IN  IF r.ok
                THEN ctl' = [ctl EXCEPT !.pc = "lock", !.wt = r.wt]
                ELSE ctl' = RestoreAt(ctl.st, ctl.slot + 1)
    /\ UNCHANGED <<wtSlots, wtSlotName, wtSlotJson, wtLock, pre, saved>>

setStateInformationLock == StoreLock("restore")
setStateInformationStoreWt == StoreWt("restore")
setStateInformationStoreJson == StoreJson("restore")
setStateInformationStoreName == StoreName("restore")

\* end of the locked scope, then the next slot
setStateInformationNext ==
    /\ ctl.pc = "unlock" /\ ctl.op = "restore"
    /\ wtLock' = "free"
    /\ ctl' = RestoreAt(ctl.st, ctl.slot + 1)
    /\ UNCHANGED <<wtSlots, wtSlotName, wtSlotJson, pre, saved>>

synthVars == <<voice, order, sampleRate, params, au, ev>>
vars == <<wtSlots, wtSlotName, wtSlotJson, wtLock, ctl, pre, saved,
          voice, order, sampleRate, params, au, ev, heap, calc>>

\* ------------------------------------------------------------------------
\* Bounds of the model
\* ------------------------------------------------------------------------
\* envelope level 1.0f, in envelope units
EnvOne == 4
\* samples per processBlock buffer
BlockSize == 3
\* juce::Synthesiser::minimumSubBlockSize, in the model's block scale
MinSubBlock == 2
\* processBlock calls in one run
MaxBlocks == 2

\* ------------------------------------------------------------------------
\* juce::ADSR, as WavetableVoice drives it.  A duration parameter is given
\* as the number of samples it lasts at the envelope's own sample rate;
\* sustain is a level in envelope units.
\* ------------------------------------------------------------------------
Rate(distance, len) == IF len > 0 THEN distance \div len ELSE -1
attackRate(p) == Rate(EnvOne, p.attack)
decayRate(p) == Rate(EnvOne - p.sustain, p.decay)
releaseRate(p) == Rate(p.sustain, p.release)

AdsrVal(st, e) == [adsr |-> st, env |-> e]
adsrReset == AdsrVal("idle", 0)

\* ADSR::isActive
isActive(a) == a.adsr # "idle"

\* ADSR::goToNextState
goToNextState(a, p) ==
    IF a.adsr = "attack"
    THEN AdsrVal(IF decayRate(p) > 0 THEN "decay" ELSE "sustain", a.env)
    ELSE IF a.adsr = "decay" THEN AdsrVal("sustain", a.env)
    ELSE IF a.adsr = "release" THEN adsrReset
    ELSE a

\* ADSR::setParameters -> recalculateRates
adsrSetParameters(a, p) ==
    IF \/ (a.adsr = "attack" /\ attackRate(p) <= 0)
       \/ (a.adsr = "decay" /\ (decayRate(p) <= 0 \/ a.env <= p.sustain))
       \/ (a.adsr = "release" /\ releaseRate(p) <= 0)
    THEN goToNextState(a, p)
    ELSE a

\* ADSR::noteOn
adsrNoteOn(a, p) ==
    IF attackRate(p) > 0 THEN AdsrVal("attack", a.env)
    ELSE IF decayRate(p) > 0 THEN AdsrVal("decay", EnvOne)
    ELSE AdsrVal("sustain", p.sustain)

\* variant: only a sustained envelope is released
adsrNoteOff_OnlyFromSustain(a, p) ==
    IF a.adsr = "sustain"
    THEN IF p.release > 0 THEN AdsrVal("release", a.env) ELSE adsrReset
    ELSE a

\* ADSR::noteOff
adsrNoteOff(a, p) ==
    IF a.adsr # "idle"
    THEN IF p.release > 0 THEN AdsrVal("release", a.env) ELSE adsrReset
    ELSE a

\* ADSR::getNextSample: the envelope after the sample
adsrGetNextSample(a, p) ==
    IF a.adsr = "attack"
    THEN LET e == a.env + attackRate(p)
         IN  IF e >= EnvOne THEN goToNextState(AdsrVal("attack", EnvOne), p)
                            ELSE AdsrVal("attack", e)
    ELSE IF a.adsr = "decay"
    THEN LET e == a.env - decayRate(p)
         IN  IF e <= p.sustain THEN goToNextState(AdsrVal("decay", p.sustain), p)
                               ELSE AdsrVal("decay", e)
    ELSE IF a.adsr = "sustain" THEN AdsrVal("sustain", p.sustain)
    ELSE IF a.adsr = "release"
    THEN LET e == a.env - releaseRate(p)
         IN  IF e <= 0 THEN goToNextState(AdsrVal("release", e), p)
                       ELSE AdsrVal("release", e)
    ELSE a

\* the parameter values the model ranges over: the ADSR durations in samples,
\* the sustain level in envelope units, and whether each oscillator level is
\* above the 0.0001 threshold of renderNextBlock
ParamDefault ==
    [attack |-> 1, decay |-> 1, sustain |-> 2, release |-> 1, level |-> <<1, 0, 0, 0>>]
ParamOther ==
    [attack |-> 2, decay |-> 2, sustain |-> 0, release |-> 2, level |-> <<1, 1, 0, 0>>]
ParamSets == {ParamDefault, ParamOther}

\* ------------------------------------------------------------------------
\* WavetableVoice
\* ------------------------------------------------------------------------
\* note: getCurrentlyPlayingNote (-1 when the voice is free); keyDown: the
\* synthesiser's key flag; phaseDelta: the common increment of the 4
\* oscillators; p: the parameters the voice's ADSR holds since its last
\* setParameters; released: adsr.noteOff() was called since the note started
FreeVoice ==
    [note |-> -1, keyDown |-> FALSE, adsr |-> "idle", env |-> 0,
     phaseDelta |-> 0, p |-> ParamDefault, released |-> FALSE]

isVoiceActive(vc) == vc.note >= 0
AdsrOf(vc) == AdsrVal(vc.adsr, vc.env)
WithAdsr(vc, a) == [vc EXCEPT !.adsr = a.adsr, !.env = a.env]

\* MidiMessage::getMidiNoteInHertz, in the model's frequency unit
NoteHz(n) == IF n >= 72 THEN 4 ELSE 2

\* updateADSR: adsr.setParameters (the current parameter values)
updateADSR(vc, p) ==
    LET a == adsrSetParameters(AdsrOf(vc), p)
    IN  [vc EXCEPT !.adsr = a.adsr, !.env = a.env, !.p = p]

\* startNote: delta = (sr > 0 ? freq / sr : 0); phases to 0; updateADSR();
\* adsr.noteOn()
startNote(vc, n, sr, p) ==
    LET a == adsrNoteOn(AdsrOf(updateADSR(vc, p)), p)
    IN  [vc EXCEPT !.adsr = a.adsr, !.env = a.env, !.p = p,
                   !.phaseDelta = IF sr > 0 THEN (2 * NoteHz(n)) \div sr ELSE 0,
                   !.released = FALSE]

\* variant: the voice is cleared on every stop, tail-off or not
stopNote_AlwaysClears(vc, allowTailOff) == FreeVoice

\* stopNote (velocity, allowTailOff)
stopNote(vc, allowTailOff) ==
    IF allowTailOff
    THEN LET a == adsrNoteOff(AdsrOf(vc), vc.p)
         IN  [vc EXCEPT !.adsr = a.adsr, !.env = a.env,
                        !.released = (vc.released \/ vc.adsr # "idle")]
    ELSE FreeVoice    \* adsr.reset(); clearCurrentNote(); phaseDelta[i] = 0

\* what oscillator k adds to the mix of one sample, given its level (above
\* the 0.0001 threshold or not) and its entry of the snapshot:
\*   "skip"   lvl <= 0.0001f: the phase advances, nothing is added
\*   "table"  sampleWavetable (*wts[k], phase[k], morph) * lvl
\*   "sine"   std::sin (phase[k] * twoPi) * lvl
\* variant: an oscillator without a table adds nothing
oscSource_SilentWhenEmpty(lvl, wt) ==
    IF lvl <= 0 THEN "skip"
    ELSE IF ~wt.isNull /\ wt.tableSize > 0 /\ wt.frames > 0 THEN "table"
    ELSE "skip"

oscSource(lvl, wt) ==
    IF lvl <= 0 THEN "skip"
    ELSE IF ~wt.isNull /\ wt.tableSize > 0 /\ wt.frames > 0 THEN "table"
    ELSE "sine"

\* the early returns of renderNextBlock: the voice renders nothing
rendersNothing(vc) == vc.phaseDelta = 0

\* variant: the loop has no break, it runs on after the voice was cleared
RECURSIVE renderLoop_NoBreak(_, _, _, _)
renderLoop_NoBreak(a, p, n, done) ==
    IF n = 0 THEN [a |-> a, written |-> done, freed |-> ~isActive(a)]
    ELSE renderLoop_NoBreak(adsrGetNextSample(a, p), p, n - 1, done + 1)

\* the while loop of renderNextBlock over n samples: the envelope after the
\* loop, the number of samples written and whether the voice freed itself
RECURSIVE renderLoop(_, _, _, _)
renderLoop(a, p, n, done) ==
    IF n = 0 THEN [a |-> a, written |-> done, freed |-> FALSE]
    ELSE LET b == adsrGetNextSample(a, p)
         IN  IF ~isActive(b)
             THEN [a |-> b, written |-> done + 1, freed |-> TRUE]
             ELSE renderLoop(b, p, n - 1, done + 1)

\* ------------------------------------------------------------------------
\* juce::Synthesiser, as constructed by the processor: 8 voices, one sound
\* that applies to every note and channel, note stealing left enabled.
\* ------------------------------------------------------------------------
Rates == {1, 2}

\* a MIDI message of the buffer with its sample position
NoteOnAt(n, pos) == [kind |-> "noteOn", note |-> n, pos |-> pos]
NoteOffAt(n, pos) == [kind |-> "noteOff", note |-> n, pos |-> pos]
AllNotesOffAt(pos) == [kind |-> "allNotesOff", note |-> -1, pos |-> pos]
NoEvent == [kind |-> "none", note |-> -1, pos |-> 0]

RemoveFrom(sq, x) == SelectSeq(sq, LAMBDA y : y # x)

\* SynthesiserVoice::isPlayingButReleased (no pedal is ever down)
isPlayingButReleased(vc) == isVoiceActive(vc) /\ ~vc.keyDown

\* the first element of sq that satisfies Test, or -1
FirstIn(sq, Test(_)) ==
    IF \E i \in 1 .. Len(sq) : Test(sq[i])
    THEN sq[CHOOSE i \in 1 .. Len(sq) : Test(sq[i]) /\ \A j \in 1 .. (i - 1) : ~Test(sq[j])]
    ELSE -1

\* Synthesiser::findVoiceToSteal
findVoiceToSteal(vs, ord, n) ==
    LET held == {v \in Voices : ~isPlayingButReleased(vs[v])}
        \* first voice, in pool order, with the lowest / highest protected note
        lowOf == IF held = {} THEN -1
                 ELSE CHOOSE v \in held :
                        \A w \in held : vs[v].note < vs[w].note \/ (vs[v].note = vs[w].note /\ v <= w)
        topOf0 == IF held = {} THEN -1
                  ELSE CHOOSE v \in held :
                        \A w \in held : vs[v].note > vs[w].note \/ (vs[v].note = vs[w].note /\ v <= w)
        topOf == IF topOf0 = lowOf THEN -1 ELSE topOf0
        c1 == FirstIn(ord, LAMBDA v : vs[v].note = n)
        c2 == FirstIn(ord, LAMBDA v : v # lowOf /\ v # topOf /\ isPlayingButReleased(vs[v]))
        c3 == FirstIn(ord, LAMBDA v : v # lowOf /\ v # topOf /\ ~vs[v].keyDown)
        c4 == FirstIn(ord, LAMBDA v : v # lowOf /\ v # topOf)
    IN  IF c1 # -1 THEN c1
        ELSE IF c2 # -1 THEN c2
        ELSE IF c3 # -1 THEN c3
        ELSE IF c4 # -1 THEN c4
        ELSE IF topOf # -1 THEN topOf
        ELSE lowOf

\* Synthesiser::findFreeVoice (sound, channel, note, shouldStealNotes)
findFreeVoice(vs, ord, n) ==
    IF \E v \in Voices : ~isVoiceActive(vs[v])
    THEN CHOOSE v \in Voices : ~isVoiceActive(vs[v]) /\ \A w \in 0 .. (v - 1) : isVoiceActive(vs[w])
    ELSE findVoiceToSteal(vs, ord, n)

EvOf(kind, n, v, hard, tail, started, freed, wasReleased) ==
    [kind |-> kind, note |-> n, v |-> v, hard |-> hard, tail |-> tail,
     started |-> started, freed |-> freed, wasReleased |-> wasReleased,
     full |-> \A w \in Voices : isVoiceActive(voice[w]),
     srcs |-> [i \in Slots |-> "none"], start |-> 0, num |-> 0, wrote |-> {}]
EvNone ==
    [kind |-> "none", note |-> -1, v |-> -1, hard |-> {}, tail |-> {},
     started |-> -1, freed |-> FALSE, wasReleased |-> FALSE, full |-> FALSE,
     srcs |-> [i \in Slots |-> "none"], start |-> 0, num |-> 0, wrote |-> {}]

\* variant: a note-on that finds no free voice is dropped
synthNoteOn_NoStealing(n) ==
    LET same == {v \in Voices : voice[v].note = n}
        vs1 == [v \in Voices |-> IF v \in same THEN stopNote(voice[v], TRUE) ELSE voice[v]]
        t == findFreeVoice(vs1, order, n)
        started == startNote([vs1[t] EXCEPT !.note = n, !.keyDown = TRUE], n, sampleRate, params)
    IN  IF isVoiceActive(vs1[t])
        THEN [voice |-> vs1, order |-> order,
              ev |-> EvOf("noteOn", n, -1, {}, same, -1, FALSE, FALSE)]
        ELSE [voice |-> [vs1 EXCEPT ![t] = started],
              order |-> Append(RemoveFrom(order, t), t),
              ev |-> EvOf("noteOn", n, t, {}, same, t, FALSE, FALSE)]

\* Synthesiser::noteOn: the voices already playing the note get a note-off
\* with tail-off, then startVoice (findFreeVoice (...)); startVoice stops a
\* voice that is still playing with stopNote (0, false) before it restarts it
synthNoteOn(n) ==
    LET same == {v \in Voices : voice[v].note = n}
        vs1 == [v \in Voices |-> IF v \in same THEN stopNote(voice[v], TRUE)
                                               ELSE voice[v]]
        t == findFreeVoice(vs1, order, n)
        stolen == isVoiceActive(vs1[t])
        base == IF stolen THEN stopNote(vs1[t], FALSE) ELSE vs1[t]
        started == startNote([base EXCEPT !.note = n, !.keyDown = TRUE], n, sampleRate, params)
    IN  [voice |-> [vs1 EXCEPT ![t] = started],
         order |-> Append(RemoveFrom(order, t), t),
         ev |-> EvOf("noteOn", n, t, IF stolen THEN {t} ELSE {}, same, t, FALSE, FALSE)]

\* Synthesiser::noteOff (channel, note, velocity, allowTailOff = true)
synthNoteOff(n) ==
    LET same == {v \in Voices : voice[v].note = n}
    IN  [voice |-> [v \in Voices |->
                      IF v \in same
                      THEN stopNote([voice[v] EXCEPT !.keyDown = FALSE], TRUE)
                      ELSE voice[v]],
         order |-> order,
         ev |-> EvOf("noteOff", n, -1, {}, same, -1, FALSE, FALSE)]

\* Synthesiser::allNotesOff (channel, allowTailOff): stopNote on every voice
synthAllNotesOff(allowTailOff) ==
    [voice |-> [v \in Voices |-> stopNote(voice[v], allowTailOff)],
     order |-> IF allowTailOff THEN order ELSE << >>,
     ev |-> EvOf("allNotesOff", -1, -1, IF allowTailOff THEN {} ELSE Voices,
                 IF allowTailOff THEN Voices ELSE {}, -1, FALSE, FALSE)]

\* Synthesiser::handleMidiEvent
handleMidiEvent(e) ==
    IF e.kind = "noteOn" THEN synthNoteOn(e.note)
    ELSE IF e.kind = "noteOff" THEN synthNoteOff(e.note)
    ELSE synthAllNotesOff(TRUE)

\* ------------------------------------------------------------------------
\* The audio callback: processBlock -> synth.renderNextBlock ->
\* Synthesiser::processNextBlock -> renderVoices -> renderNextBlock of each
\* voice.  au is the position of the callback:
\*   pc       "idle", "loop" (the event loop of processNextBlock), "voices"
\*            (renderVoices is at voice v), "locked" (voice v holds wtLock
\*            inside getWtSlotsSnapshot), "samples" (voice v is about to run
\*            its sample loop)
\*   start, num   startSample and numSamples of processNextBlock
\*   first        firstEvent
\*   midi     the MIDI messages of the buffer from the iterator on
\*   sub      length of the sub-block being rendered
\*   final    the sub-block is the rest of the buffer
\*   pend     the event to handle after the sub-block
\*   oscLevels, snap   the voice's local copies of the 4 levels and 4 slots
\*   blocks   processBlock calls so far                   (history)
\*   locks    wtLock acquisitions by this callback        (history)
\*   tabs     per slot, the tables that the sample loops of this callback
\*            have read from, for the oscillators that sound (history)
\* ------------------------------------------------------------------------
AuIdle ==
    [pc |-> "idle", start |-> 0, num |-> 0, first |-> TRUE, midi |-> << >>,
     sub |-> 0, v |-> 0, final |-> FALSE, pend |-> NoEvent,
     oscLevels |-> <<0, 0, 0, 0>>, snap |-> [i \in Slots |-> NullWt],
     locks |-> 0, tabs |-> [i \in Slots |-> {}], blocks |-> 0]

SynthInit ==
    /\ voice = [v \in Voices |-> FreeVoice]
    /\ order = << >>
    /\ sampleRate = 0
    /\ params = ParamDefault
    /\ au = AuIdle
    /\ ev = EvNone

\* the first voice from v on whose renderNextBlock gets past its early
\* returns, or numVoices
NextRendering(vs, v) ==
    IF \E w \in v .. (numVoices - 1) : ~rendersNothing(vs[w])
    THEN CHOOSE w \in v .. (numVoices - 1) :
            ~rendersNothing(vs[w]) /\ \A u \in v .. (w - 1) : rendersNothing(vs[u])
    ELSE numVoices

\* prepareToPlay (sampleRate, samplesPerBlock): setCurrentPlaybackSampleRate
\* stops every voice without tail-off when the rate changes
prepareToPlay(sr) ==
    /\ au.pc = "idle"
    /\ sampleRate' = sr
    /\ IF sr # sampleRate
       THEN LET r == synthAllNotesOff(FALSE)
            IN  voice' = r.voice /\ order' = r.order /\ ev' = r.ev
       ELSE voice' = voice /\ order' = order /\ ev' = EvNone
    /\ UNCHANGED <<params, au>>

\* a parameter change by the host or the editor
setParameters(p) ==
    /\ p # params
    /\ params' = p
    /\ ev' = EvNone
    /\ UNCHANGED <<voice, order, sampleRate, au>>

\* a MIDI buffer for a block of BlockSize samples: positions inside the
\* block, in ascending order
IsMidiBuffer(midi) ==
    /\ \A k \in 1 .. Len(midi) : midi[k].pos \in 0 .. (BlockSize - 1)
    /\ \A k \in 1 .. (Len(midi) - 1) : midi[k].pos <= midi[k + 1].pos

\* processBlock (buffer, midi): buffer.clear();
\* synth.renderNextBlock (buffer, midi, 0, buffer.getNumSamples())
processBlockEnter(midi) ==
    /\ au.pc = "idle"
    /\ au.blocks < MaxBlocks
    /\ IsMidiBuffer(midi)
    /\ au' = [AuIdle EXCEPT !.pc = "loop", !.num = BlockSize, !.midi = midi,
                            !.blocks = au.blocks + 1]
    /\ ev' = EvNone
    /\ UNCHANGED <<voice, order, sampleRate, params>>

\* processNextBlock, one turn of the loop with a message at the iterator:
\* the message is handled at once, or after the sub-block up to it
processNextBlockEvent ==
    /\ au.pc = "loop"
    /\ au.midi # << >>
    /\ LET e == Head(au.midi)
           samplesToNextMidiMessage == e.pos - au.start
           threshold == IF au.first THEN 1 ELSE MinSubBlock
       IN  IF samplesToNextMidiMessage < threshold
           THEN LET r == handleMidiEvent(e)
                IN  /\ voice' = r.voice /\ order' = r.order /\ ev' = r.ev
                    /\ au' = [au EXCEPT !.midi = Tail(au.midi)]
           ELSE /\ au' = [au EXCEPT !.pc = "voices", !.first = FALSE,
                                    !.midi = Tail(au.midi),
                                    !.sub = samplesToNextMidiMessage,
                                    !.final = FALSE, !.pend = e,
                                    !.v = NextRendering(voice, 0)]
                /\ ev' = EvNone
                /\ UNCHANGED <<voice, order>>
    /\ UNCHANGED <<sampleRate, params>>

\* processNextBlock: the iterator is at the end, the rest of the buffer is
\* rendered
processNextBlockRest ==
    /\ au.pc = "loop"
    /\ au.midi = << >>
    /\ au' = [au EXCEPT !.pc = "voices", !.sub = au.num, !.final = TRUE, !.pend = NoEvent,
                        !.v = NextRendering(voice, 0)]
    /\ ev' = EvNone
    /\ UNCHANGED <<voice, order, sampleRate, params>>

\* renderNextBlock of voice v: updateADSR(), then getWtSlotsSnapshot takes
\* wtLock
renderNextBlockLock ==
    /\ au.pc = "voices" /\ au.v < numVoices
    /\ wtLock = "free"
    /\ wtLock' = "audio"
    /\ voice' = [voice EXCEPT ![au.v] = updateADSR(@, params)]
    /\ au' = [au EXCEPT !.pc = "locked", !.locks = @ + 1, !.oscLevels = params.level]
    /\ ev' = EvNone
    /\ UNCHANGED <<order, sampleRate, params>>

\* getWtSlotsSnapshot: out = wtSlots, end of the locked scope
getWtSlotsSnapshot ==
    /\ au.pc = "locked"
    /\ au' = [au EXCEPT !.pc = "samples", !.snap = wtSlots]
    /\ wtLock' = "free"
    /\ heap' = [heap EXCEPT !.stale = {}]
    /\ ev' = EvNone
    /\ UNCHANGED <<voice, order, sampleRate, params>>

\* renderNextBlock of voice v: the sample loop and the end-of-envelope test
renderNextBlockSamples ==
    /\ au.pc = "samples"
    /\ LET r == renderLoop(AdsrOf(voice[au.v]), voice[au.v].p, au.sub, 0)
           vs == [voice EXCEPT ![au.v] = IF r.freed THEN FreeVoice ELSE WithAdsr(@, r.a)]
       IN  /\ voice' = vs
           /\ order' = IF r.freed THEN RemoveFrom(order, au.v) ELSE order
           /\ heap' = [stale |-> {}, last |-> releaseOnReturn]
           /\ ev' = [EvOf("render", voice[au.v].note, au.v, {}, {}, -1, r.freed,
                               voice[au.v].released)
                        EXCEPT !.srcs = [i \in Slots |->
                                           oscSource(au.oscLevels[i + 1], au.snap[i])],
                               !.start = au.start, !.num = au.sub,
                               !.wrote = au.start .. (au.start + r.written - 1)]
           /\ au' = [au EXCEPT !.pc = "voices", !.v = NextRendering(vs, au.v + 1),
                       !.tabs = [i \in Slots |->
                                   IF oscSource(au.oscLevels[i + 1], au.snap[i]) = "table"
                                   THEN au.tabs[i] \cup {au.snap[i]}
                                   ELSE au.tabs[i]]]
    /\ UNCHANGED <<sampleRate, params>>

\* renderVoices is through: the pending event is handled and the loop goes
\* on, or processNextBlock and processBlock return
renderVoicesDone ==
    /\ au.pc = "voices" /\ au.v >= numVoices
    /\ IF au.final
       THEN /\ au' = [au EXCEPT !.pc = "idle"]
            /\ ev' = EvNone
            /\ UNCHANGED <<voice, order>>
       ELSE LET r == handleMidiEvent(au.pend)
            IN  /\ voice' = r.voice /\ order' = r.order /\ ev' = r.ev
                /\ au' = [au EXCEPT !.pc = "loop", !.start = au.start + au.sub,
                                    !.num = au.num - au.sub, !.pend = NoEvent]
    /\ UNCHANGED <<sampleRate, params>>

\* ------------------------------------------------------------------------
\* Initial state: the processor after its constructor
\* ------------------------------------------------------------------------
\* no call of a pure routine is under way
CalcNone == [fn |-> "none", done |-> TRUE]

ProcessorInit == StoreInit /\ SynthInit /\ HeapInit

Init == ProcessorInit /\ calc = CalcNone

\* ------------------------------------------------------------------------
\* The files the loader is given
\* ------------------------------------------------------------------------
\* header tableSize values that are no power of two
NonPow2Sizes == {3, 5, 6, 7, 100, 65535}

PayloadA == Payload(2, 1, 1, 0)      \* 2 samples, 1 frame, 1 harmonic
PayloadB == Payload(4, 2, 1, 1)      \* 4 samples, 2 frames, 1 harmonic, 1 band
PayloadC == Payload(1, 1, 0, 0)      \* header tableSize 1 = 2^0

NameA == <<"a", "wtgen", "json">>
NameB == <<"b", "wtgen", "json">>
NameC == <<"c", "json">>
NameBad == <<"bad", "json">>

FileA == FileOf(NameA, GoodDoc(PayloadA))
FileB == FileOf(NameB, GoodDoc(PayloadB))
FileC == FileOf(NameC, GoodDoc(PayloadC))
GoodFiles == {FileA, FileB, FileC}

\* every proper prefix of PayloadA, and PayloadB cut after its header, in
\* its first frame, at the end of its first frame and one byte short
TruncatedFiles ==
    {FileOf(NameBad, GoodDoc(Cut(PayloadA, n))) : n \in 0 .. (Len(PayloadA) - 1)}
    \cup {FileOf(NameBad, GoodDoc(Cut(PayloadB, n))) :
             n \in {HeaderBytes, HeaderBytes + 3, HeaderBytes + perFrameBytes(1, 1),
                    Len(PayloadB) - 1}}

\* a header tableSize that is no power of two, with the frames complete and
\* with the frames cut short
NonPow2Files ==
    {FileOf(NameBad, GoodDoc(Payload(ts, 1, 1, 0))) : ts \in NonPow2Sizes}
    \cup {FileOf(NameBad, GoodDoc(Cut(Payload(ts, 2, 1, 1), 20))) : ts \in NonPow2Sizes}

BadHeaderFiles ==
    {FileOf(NameBad, GoodDoc(Payload(0, 1, 1, 0))),
     FileOf(NameBad, GoodDoc(Payload(2, 0, 1, 0))),
     FileOf(NameBad, GoodDoc(<<72, 78, 70, 80, 118, 50, 0>> \o SubSeq(PayloadA, 8, Len(PayloadA))))}

BadJsonFiles ==
    {FileOf(NameBad, [GoodDoc(PayloadA) EXCEPT !.parses = FALSE]),
     FileOf(NameBad, [GoodDoc(PayloadA) EXCEPT !.schema = "wtgen-2"]),
     FileOf(NameBad, [GoodDoc(PayloadA) EXCEPT !.op = "additive"]),
     FileOf(NameBad, [GoodDoc(PayloadA) EXCEPT !.codec = "raw"]),
     FileOf(NameBad, [GoodDoc(PayloadA) EXCEPT !.data = [b64 |-> "missing", bytes |-> << >>]]),
     FileOf(NameBad, [GoodDoc(PayloadA) EXCEPT !.data = [b64 |-> "bad", bytes |-> << >>]])}

UnreadableFiles ==
    {[exists |-> FALSE, name |-> NameBad, text |-> EmptyText],
     FileOf(NameBad, EmptyText)}

\* documents that declare dimensions: those of the payload's header,
\* another tableSize, another frame count, and both over a payload whose
\* own header is invalid
DeclaringFiles ==
    {FileOf(NameB, DocDeclaring(PayloadB, 4, 2)),
     FileOf(NameA, DocDeclaring(PayloadA, 4, 1)),
     FileOf(NameA, DocDeclaring(PayloadA, 2, 3)),
     FileOf(NameBad, DocDeclaring(Payload(100, 1, 1, 0), 128, 1)),
     FileOf(NameBad, DocDeclaring(Cut(PayloadB, HeaderBytes + 3), 2, 1))}

LoaderFiles ==
    GoodFiles \cup TruncatedFiles \cup NonPow2Files \cup BadHeaderFiles
    \cup BadJsonFiles \cup UnreadableFiles

\* the slot arguments of the loader runs: the first and the last slot, and
\* the nearest invalid index on each side
SlotArgs == {-1, 0, NumSlots - 1, NumSlots}

\* ------------------------------------------------------------------------
\* SpecLoader: the control context alone, loading from the whole catalogue
\* ------------------------------------------------------------------------
NextLoader ==
    \/ (\E slot \in SlotArgs, file \in LoaderFiles : loadWtgenSlotEnter(slot, file))
          /\ UNCHANGED <<synthVars, heap, calc>>
    \/ loadWtgenSlotBuild /\ UNCHANGED <<synthVars, heap, calc>>
    \/ loadWtgenSlotLock /\ UNCHANGED <<synthVars, heap, calc>>
    \/ loadWtgenSlotStoreWt /\ UNCHANGED <<synthVars, calc>>
    \/ loadWtgenSlotStoreJson /\ UNCHANGED <<synthVars, heap, calc>>
    \/ loadWtgenSlotStoreName /\ UNCHANGED <<synthVars, heap, calc>>
    \/ loadWtgenSlotReturn /\ UNCHANGED <<synthVars, heap, calc>>

SpecLoader == Init /\ [][NextLoader]_vars

\* ------------------------------------------------------------------------
\* Properties of the loader
\* ------------------------------------------------------------------------
IsPowerOfTwo(x) == \E e \in 0 .. 15 : x = Pow2(e)

LoadReturned == ctl.op = "load" /\ ctl.pc = "idle"
LoadFailed == LoadReturned /\ ~ctl.ok

\* the decoded payload of a document that gets as far as the framepack
HasPayload(json) ==
    ~json.empty /\ json.parses /\ json.schema = "wtgen-1" /\ json.op = "spectralData"
    /\ json.codec = "harm-noise-framepack-v1" /\ json.data.b64 = "ok"

HasMagic(bytes) == Len(bytes) >= Len(magic) /\ SubSeq(bytes, 1, Len(magic)) = magic

\* C1: a load changes the store only when buildWavetableFromWtgenJson
\* succeeded on the file's text, and then only the entries of its own slot;
\* once a load has returned false, the table, the JSON and the name of every
\* slot are what they were when the call began.
C1_LoadReplacesOnlyOnSuccess ==
    ctl.op = "load" =>
        /\ LoadFailed => Store = pre
        /\ ctl.pc \in {"build", "lock"} => Store = pre
        /\ Store # pre =>
              /\ ctl.slot \in Slots
              /\ buildWavetableFromWtgenJson(ctl.json, EmptyName).ok
              /\ \A i \in Slots \ {ctl.slot} :
                    /\ wtSlots[i] = pre.slots[i]
                    /\ wtSlotJson[i] = pre.json[i]
                    /\ wtSlotName[i] = pre.name[i]
        /\ (LoadReturned /\ ctl.ok) =>
              /\ ~wtSlots[ctl.slot].isNull
              /\ [wtSlots[ctl.slot] EXCEPT !.name = DefaultName]
                    = buildWavetableFromWtgenJson(ctl.json, EmptyName).wt
              /\ wtSlotJson[ctl.slot] = ctl.json

\* a load of a file with a wrong magic has failed on a slot that held a table
C1_Witness ==
    /\ LoadFailed /\ ctl.err = ErrMagic
    /\ ctl.slot \in Slots /\ ~wtSlots[ctl.slot].isNull
    /\ wtSlotJson[ctl.slot] # ctl.json

\* the payload is shorter than its header's frame count asks for
DeclaresMoreThanPresent(bytes) ==
    /\ HasMagic(bytes)
    /\ Len(bytes) >= HeaderBytes
    /\ Len(bytes) < 7 + 8 + readHeader(bytes).F
                            * (2 * readHeader(bytes).H + 2 * readHeader(bytes).B + 6)

\* C5 as stated: every load of a payload shorter than 7 + 8 + F*(2H+2B+6)
\* fails with the truncation error and leaves the store as it was.
C5_AsStated ==
    (LoadReturned /\ ctl.slot \in Slots /\ HasPayload(ctl.json)
        /\ DeclaresMoreThanPresent(ctl.json.data.bytes))
    => (~ctl.ok /\ ctl.err = ErrTrunc /\ Store = pre)

\* C5: a payload with the magic and a complete header whose tableSize is a
\* power of two and whose frame count is at least 1, shorter than
\* 7 + 8 + F*(2H+2B+6), fails with the truncation error; whatever its header
\* says, a payload that short fails and the store is left as it was.
C5_TruncatedFails ==
    (LoadReturned /\ ctl.slot \in Slots /\ HasPayload(ctl.json)
        /\ DeclaresMoreThanPresent(ctl.json.data.bytes))
    => /\ ~ctl.ok /\ Store = pre
       /\ (IsPowerOfTwo(readHeader(ctl.json.data.bytes).tableSize)
             /\ readHeader(ctl.json.data.bytes).F >= 1) => ctl.err = ErrTrunc

\* a payload cut inside its second frame has failed with the truncation
\* error on a slot that holds a table
C5_Witness ==
    /\ LoadFailed /\ ctl.err = ErrTrunc
    /\ ctl.slot \in Slots /\ ~wtSlots[ctl.slot].isNull
    /\ readHeader(ctl.json.data.bytes).F = 2
    /\ Len(ctl.json.data.bytes) > HeaderBytes + perFrameBytes(1, 1)

ValidationErrors == {ErrHeader, ErrPow2}

\* the tableSize field is there and is no power of two
HasNonPow2Size(bytes) ==
    /\ HasMagic(bytes)
    /\ Len(bytes) >= Len(magic) + 2
    /\ ~IsPowerOfTwo(readHeader(bytes).tableSize)

\* the build alone, for each of the 65536 values of the tableSize field
BuildRejectsEveryNonPow2 ==
    \A ts \in 0 .. 65535 :
        ~IsPowerOfTwo(ts) =>
            LET r == buildWavetableFromWtgenJson(GoodDoc(Payload(ts, 1, 1, 0)), EmptyName)
            IN  ~r.ok /\ r.err \in ValidationErrors /\ r.wt = NullWt

\* C6: a payload whose header tableSize is not a power of two is rejected
\* with a header validation error for every value 0..65535 of the field, and
\* a load of such a payload leaves every slot as it was.
C6_NonPow2Rejected ==
    /\ BuildRejectsEveryNonPow2
    /\ (LoadReturned /\ ctl.slot \in Slots /\ HasPayload(ctl.json)
          /\ HasNonPow2Size(ctl.json.data.bytes))
       => (~ctl.ok /\ ctl.err \in ValidationErrors /\ Store = pre)

\* a complete payload with tableSize 100 has been rejected while both loaded
\* slots hold tables
C6_Witness ==
    /\ LoadFailed /\ ctl.err = ErrPow2
    /\ readHeader(ctl.json.data.bytes).tableSize = 100
    /\ Len(ctl.json.data.bytes) = HeaderBytes + 2 + 6
    /\ ~wtSlots[0].isNull /\ ~wtSlots[NumSlots - 1].isNull

\* C7 as stated: every stored table has tableSize a power of two that is at
\* least 2, and at least one frame.
C7_AsStated ==
    \A i \in Slots :
        ~wtSlots[i].isNull =>
            /\ IsPowerOfTwo(wtSlots[i].tableSize)
            /\ wtSlots[i].tableSize >= 2
            /\ wtSlots[i].frames >= 1

\* ------------------------------------------------------------------------
\* SpecSynth: the audio context and the host's calls on the synthesiser,
\* with the store left alone
\* ------------------------------------------------------------------------
\* the MIDI buffers of the synthesiser runs: single messages at each kind
\* of position, a re-strike inside one buffer, and the 8-note chord that
\* fills the pool.  In these runs the parameters change between callbacks.
Chord == [k \in 1 .. numVoices |-> NoteOnAt(59 + k, 0)]

SynthBuffers ==
    {<< >>,
     <<NoteOnAt(60, 0)>>, <<NoteOnAt(72, 1)>>, <<NoteOnAt(60, 0), NoteOnAt(60, 2)>>,
     <<NoteOffAt(60, 0)>>, <<NoteOffAt(72, 2)>>, <<AllNotesOffAt(1)>>,
     Chord}

NextSynth ==
    \/ (\E sr \in Rates : prepareToPlay(sr)) /\ UNCHANGED <<storeVars, heap, calc>>
    \/ (au.pc = "idle" /\ \E p \in ParamSets : setParameters(p)) /\ UNCHANGED <<storeVars, heap, calc>>
    \/ (\E midi \in SynthBuffers : processBlockEnter(midi)) /\ UNCHANGED <<storeVars, heap, calc>>
    \/ processNextBlockEvent /\ UNCHANGED <<storeVars, heap, calc>>
    \/ processNextBlockRest /\ UNCHANGED <<storeVars, heap, calc>>
    \/ renderNextBlockLock /\ UNCHANGED <<wtSlots, wtSlotName, wtSlotJson, ctl, pre, saved, heap, calc>>
    \/ getWtSlotsSnapshot /\ UNCHANGED <<wtSlots, wtSlotName, wtSlotJson, ctl, pre, saved, calc>>
    \/ renderNextBlockSamples /\ UNCHANGED <<storeVars, calc>>
    \/ renderVoicesDone /\ UNCHANGED <<storeVars, heap, calc>>

SpecSynth == Init /\ [][NextSynth]_vars

\* ------------------------------------------------------------------------
\* Properties of the voice pool
\* ------------------------------------------------------------------------
PoolFull == \A w \in Voices : isVoiceActive(voice[w])

\* C9: a voice that is active before a step and free after it was freed
\* either by its own sample loop, at the sample where its envelope became
\* idle, after adsr.noteOff() had been called on it, or by a stopNote call
\* with allowTailOff false made in that step.
C9_FreedOnlyAtEnvelopeEndOrHardStop ==
    [][\A v \in Voices :
          (isVoiceActive(voice[v]) /\ ~isVoiceActive(voice'[v])) =>
              \/ /\ au.pc = "samples" /\ au.v = v
                 /\ voice[v].released
                 /\ renderLoop(AdsrOf(voice[v]), voice[v].p, au.sub, 0).freed
                 /\ ~isActive(AdsrOf(voice'[v]))
              \/ v \in ev'.hard]_vars

\* a released voice has just been freed by its sample loop while another
\* voice plays on
C9_Witness ==
    /\ ev.kind = "render" /\ ev.freed /\ ev.wasReleased
    /\ ~isVoiceActive(voice[ev.v])
    /\ \E w \in Voices : isVoiceActive(voice[w]) /\ voice[w].adsr = "sustain"

\* the step handles a note-on message of the buffer
HandlesNoteOn ==
    \/ /\ au.pc = "loop" /\ au.midi # << >> /\ Head(au.midi).kind = "noteOn"
       /\ au'.pc = "loop"
    \/ /\ au.pc = "voices" /\ au.v >= numVoices /\ ~au.final /\ au.pend.kind = "noteOn"

NoteOnHandled == IF au.pc = "loop" THEN Head(au.midi).note ELSE au.pend.note

\* C10 as stated: with all 8 voices playing, the handling of a further
\* note-on leaves every voice as it is.
C10_AsStated ==
    [][(PoolFull /\ HandlesNoteOn) => voice' = voice]_vars

\* C10: with all 8 voices playing, a further note-on is sounded by stealing:
\* exactly one of the 8 voices is stopped without tail-off and started again
\* at once with the new note, key down; the pool stays at 8 playing voices;
\* every other voice keeps its note and its envelope, except that those
\* which play the note number of the note-on get a tail-off note-off.
C10_FullPoolSteals ==
    [][(PoolFull /\ HandlesNoteOn) =>
          /\ \E t \in Voices :
                /\ ev'.hard = {t} /\ ev'.started = t
                /\ voice'[t].note = NoteOnHandled
                /\ voice'[t].keyDown /\ ~voice'[t].released
                /\ voice'[t].adsr \in {"attack", "decay", "sustain"}
                /\ order' # << >> /\ order'[Len(order')] = t
                /\ \A w \in Voices \ {t} :
                      /\ voice'[w].note = voice[w].note
                      /\ voice'[w].keyDown = voice[w].keyDown
                      /\ IF voice[w].note = NoteOnHandled
                         THEN AdsrOf(voice'[w]) = adsrNoteOff(AdsrOf(voice[w]), voice[w].p)
                         ELSE AdsrOf(voice'[w]) = AdsrOf(voice[w])
          /\ \A w \in Voices : isVoiceActive(voice'[w])]_vars

\* a note-on for a note that no voice was playing has been handled with the
\* pool full: one voice was stolen, and all 8 voices play
C10_Witness ==
    /\ ev.kind = "noteOn" /\ ev.full /\ ev.tail = {}
    /\ ev.hard = {ev.started}
    /\ \A w \in Voices : isVoiceActive(voice[w])
    /\ sampleRate > 0

\* ------------------------------------------------------------------------
\* SpecState: the control context alone, loading, saving and restoring
\* ------------------------------------------------------------------------
\* a block that did not come from this plugin's getStateInformation: slot 0
\* carries a text that does not build, slot 3 a good one
ForeignState ==
    StateBlock("ok",
               [i \in Slots |-> IF i = 0 THEN [GoodDoc(PayloadA) EXCEPT !.schema = "wtgen-2"]
                                ELSE IF i = NumSlots - 1 THEN GoodDoc(PayloadB)
                                ELSE EmptyText],
               [i \in Slots |-> IF i = 0 THEN NameBad
                                ELSE IF i = NumSlots - 1 THEN NameB
                                ELSE EmptyName])

StateSlots == {0, NumSlots - 1}
StateFiles == {FileA, FileB}

NextState ==
    \/ (\E slot \in StateSlots, file \in StateFiles : loadWtgenSlotEnter(slot, file))
          /\ UNCHANGED <<synthVars, heap, calc>>
    \/ loadWtgenSlotBuild /\ UNCHANGED <<synthVars, heap, calc>>
    \/ loadWtgenSlotLock /\ UNCHANGED <<synthVars, heap, calc>>
    \/ loadWtgenSlotStoreWt /\ UNCHANGED <<synthVars, calc>>
    \/ loadWtgenSlotStoreJson /\ UNCHANGED <<synthVars, heap, calc>>
    \/ loadWtgenSlotStoreName /\ UNCHANGED <<synthVars, heap, calc>>
    \/ loadWtgenSlotReturn /\ UNCHANGED <<synthVars, heap, calc>>
    \/ getStateInformation /\ UNCHANGED <<synthVars, heap, calc>>
    \/ (\E st \in {saved, GarbageState, WrongTagState, ForeignState} :
            setStateInformationEnter(st)) /\ UNCHANGED <<synthVars, heap, calc>>
    \/ setStateInformationBuild /\ UNCHANGED <<synthVars, heap, calc>>
    \/ setStateInformationLock /\ UNCHANGED <<synthVars, heap, calc>>
    \/ setStateInformationStoreWt /\ UNCHANGED <<synthVars, calc>>
    \/ setStateInformationStoreJson /\ UNCHANGED <<synthVars, heap, calc>>
    \/ setStateInformationStoreName /\ UNCHANGED <<synthVars, heap, calc>>
    \/ setStateInformationNext /\ UNCHANGED <<synthVars, heap, calc>>

SpecState == Init /\ [][NextState]_vars

RestoreReturned == ctl.op = "restore" /\ ctl.pc = "idle"

\* what a slot holds when its text is json and its name is nm
SlotContent(json, nm) ==
    [wt |-> IF json.empty THEN NullWt ELSE buildWavetableFromWtgenJson(json, nm).wt,
     json |-> json, name |-> nm]

\* C8 as stated: once setStateInformation has returned from the block that
\* getStateInformation wrote, every slot holds what the block says: the table
\* built from the saved text (no table for an empty text), the saved text
\* and the saved name.
C8_AsStated ==
    (RestoreReturned /\ ctl.st = saved /\ saved.kind = "ok") =>
        \A i \in Slots :
            [wt |-> wtSlots[i], json |-> wtSlotJson[i], name |-> wtSlotName[i]]
                = SlotContent(saved.json[i], saved.name[i])

\* a restore has returned from a saved block in which slot 0 was empty, and
\* slot 0 holds a table
C8_Witness ==
    /\ RestoreReturned /\ ctl.st = saved /\ saved.kind = "ok"
    /\ saved.json[0].empty /\ ~saved.json[NumSlots - 1].empty
    /\ ~wtSlots[0].isNull

\* ------------------------------------------------------------------------
\* Spec: the control context and the audio context together
\* ------------------------------------------------------------------------
SpecSlots == {0}
SpecFiles == {FileA, FileB, FileOf(NameBad, GoodDoc(Cut(PayloadB, HeaderBytes + 3)))}

SpecRates == {1}
SpecBuffers == {<< >>, <<NoteOnAt(60, 0)>>, <<NoteOnAt(72, 1)>>}

Next ==
    \/ (\E slot \in SpecSlots, file \in SpecFiles : loadWtgenSlotEnter(slot, file))
          /\ UNCHANGED <<synthVars, heap, calc>>
    \/ loadWtgenSlotBuild /\ UNCHANGED <<synthVars, heap, calc>>
    \/ loadWtgenSlotLock /\ UNCHANGED <<synthVars, heap, calc>>
    \/ loadWtgenSlotStoreWt /\ UNCHANGED <<synthVars, calc>>
    \/ loadWtgenSlotStoreJson /\ UNCHANGED <<synthVars, heap, calc>>
    \/ loadWtgenSlotStoreName /\ UNCHANGED <<synthVars, heap, calc>>
    \/ loadWtgenSlotReturn /\ UNCHANGED <<synthVars, heap, calc>>
    \/ getStateInformation /\ UNCHANGED <<synthVars, heap, calc>>
    \/ (\E st \in {saved, GarbageState} : setStateInformationEnter(st))
          /\ UNCHANGED <<synthVars, heap, calc>>
    \/ setStateInformationBuild /\ UNCHANGED <<synthVars, heap, calc>>
    \/ setStateInformationLock /\ UNCHANGED <<synthVars, heap, calc>>
    \/ setStateInformationStoreWt /\ UNCHANGED <<synthVars, calc>>
    \/ setStateInformationStoreJson /\ UNCHANGED <<synthVars, heap, calc>>
    \/ setStateInformationStoreName /\ UNCHANGED <<synthVars, heap, calc>>
    \/ setStateInformationNext /\ UNCHANGED <<synthVars, heap, calc>>
    \/ (\E sr \in SpecRates : prepareToPlay(sr)) /\ UNCHANGED <<storeVars, heap, calc>>
    \/ (\E midi \in SpecBuffers : processBlockEnter(midi)) /\ UNCHANGED <<storeVars, heap, calc>>
    \/ processNextBlockEvent /\ UNCHANGED <<storeVars, heap, calc>>
    \/ processNextBlockRest /\ UNCHANGED <<storeVars, heap, calc>>
    \/ renderNextBlockLock /\ UNCHANGED <<wtSlots, wtSlotName, wtSlotJson, ctl, pre, saved, heap, calc>>
    \/ getWtSlotsSnapshot /\ UNCHANGED <<wtSlots, wtSlotName, wtSlotJson, ctl, pre, saved, calc>>
    \/ renderNextBlockSamples /\ UNCHANGED <<storeVars, calc>>
    \/ renderVoicesDone /\ UNCHANGED <<storeVars, heap, calc>>

Spec == Init /\ [][Next]_vars

\* ------------------------------------------------------------------------
\* Properties of the two contexts together
\* ------------------------------------------------------------------------
\* C2 as stated: in one processBlock call, all the samples rendered for a
\* slot are read from one table.
C2_AsStated ==
    \A i \in Slots : Cardinality(au.tabs[i]) <= 1

\* C3 as stated, in the half that needs no voice to be active: one
\* processBlock call takes wtLock and copies the slots at most once.  (With
\* no active voice the call takes it zero times.)
C3_AsStated ==
    au.locks <= 1

C7_Witness ==
    /\ LoadReturned /\ ctl.ok
    /\ wtSlots[ctl.slot].tableSize = 1 /\ wtSlots[ctl.slot].frames = 1

\* two voices of one processBlock call have read slot 0 from two tables
C2_Witness ==
    /\ au.blocks > 0
    /\ Cardinality(au.tabs[0]) = 2
    /\ Cardinality({v \in Voices : isVoiceActive(voice[v])}) = 2

\* one processBlock call with two active voices has returned after taking
\* wtLock twice
C3_Witness ==
    /\ au.pc = "idle" /\ au.blocks > 0
    /\ au.locks = 2
    /\ Cardinality({v \in Voices : isVoiceActive(voice[v])}) = 2

\* ------------------------------------------------------------------------
\* Properties of the oscillators
\* ------------------------------------------------------------------------
\* the step is the sample loop of one voice's renderNextBlock
RendersSamples == au.pc = "samples" /\ au'.pc = "voices"

\* the step is the copy of the slots inside getWtSlotsSnapshot
TakesSnapshot == au.pc = "locked" /\ au'.pc = "samples"

SlotUntouched(i) ==
    /\ wtSlots[i] = pre.slots[i]
    /\ wtSlotJson[i] = pre.json[i]
    /\ wtSlotName[i] = pre.name[i]

\* C12: at every point of a loadWtgenSlot (slot, ...) call and after it, every
\* slot other than `slot` holds the table, the JSON and the name it held
\* when the call began; a call with a slot index outside 0..3 returns false
\* with the message "Invalid slot" and leaves all four slots as they were.
C12_LoadTouchesOnlyItsSlot ==
    ctl.op = "load" =>
        /\ \A i \in Slots : i # ctl.slot => SlotUntouched(i)
        /\ ctl.slot \notin Slots =>
              /\ ctl.pc = "idle" /\ ~ctl.ok
              /\ ctl.err = ErrSlot /\ ctl.err # ErrNone
              /\ \A i \in Slots : SlotUntouched(i)

\* a load into the last slot has returned true and replaced that slot's
\* table while the first slot holds another table
C12_Witness ==
    /\ LoadReturned /\ ctl.ok /\ ctl.slot = NumSlots - 1
    /\ ~pre.slots[NumSlots - 1].isNull
    /\ wtSlots[NumSlots - 1] # pre.slots[NumSlots - 1]
    /\ ~wtSlots[0].isNull /\ wtSlots[0] # wtSlots[NumSlots - 1]

\* ------------------------------------------------------------------------
\* Messages of the loader
\* ------------------------------------------------------------------------
\* the messages that report a payload as too short
TruncationErrors == {ErrTrunc, ErrSmall}

\* the payload has the magic and ends inside the 15-byte header
CutInsideHeader(bytes) == HasMagic(bytes) /\ Len(bytes) < HeaderBytes

\* the stage at which the document of a load is first wrong, for the stages
\* the claim names; "none" when it is one of the others or nothing is wrong
FailingStage(json) ==
    IF json.empty \/ ~json.parses THEN "none"
    ELSE IF json.schema # "wtgen-1" THEN "schema"
    ELSE IF json.op # "spectralData" THEN "op"
    ELSE IF json.codec # "harm-noise-framepack-v1" THEN "codec"
    ELSE IF json.data.b64 # "ok" THEN "none"
    ELSE IF Len(json.data.bytes) >= Len(magic) /\ ~HasMagic(json.data.bytes) THEN "magic"
    ELSE IF CutInsideHeader(json.data.bytes) THEN "truncated"
    ELSE "none"

\* C13 as stated: a failed load returns false with a non-empty message, the
\* message of the stage that failed (schema, operation, codec, magic each
\* their own; a payload cut inside the 15-byte header is reported as
\* truncated); a successful load returns true with an empty message.
C13_AsStated ==
    (LoadReturned /\ ctl.slot \in Slots) =>
        /\ ctl.ok => ctl.err = ErrNone
        /\ ~ctl.ok =>
              /\ ctl.err # ErrNone
              /\ FailingStage(ctl.json) = "schema" => ctl.err = ErrSchema
              /\ FailingStage(ctl.json) = "op" => ctl.err = ErrOp
              /\ FailingStage(ctl.json) = "codec" => ctl.err = ErrCodec
              /\ FailingStage(ctl.json) = "magic" => ctl.err = ErrMagic
              /\ FailingStage(ctl.json) = "truncated" => ctl.err \in TruncationErrors

\* a payload that ends after its tableSize field has been rejected with the
\* header validation message
C13_Witness ==
    /\ LoadFailed /\ ctl.slot \in Slots /\ HasPayload(ctl.json)
    /\ CutInsideHeader(ctl.json.data.bytes)
    /\ Len(ctl.json.data.bytes) = Len(magic) + 2
    /\ readHeader(ctl.json.data.bytes).tableSize = 2
    /\ ctl.err = ErrHeader

\* ------------------------------------------------------------------------
\* Frame of one render call
\* ------------------------------------------------------------------------
\* the envelope after k calls of getNextSample
RECURSIVE EnvAfter(_, _, _)
EnvAfter(a, p, k) == IF k = 0 THEN a ELSE adsrGetNextSample(EnvAfter(a, p, k - 1), p)

\* the first of n samples (counted from 1) after which the envelope is not
\* active, 0 when it stays active over all n
FirstIdle(a, p, n) ==
    IF \E k \in 1 .. n : ~isActive(EnvAfter(a, p, k))
    THEN CHOOSE k \in 1 .. n :
            ~isActive(EnvAfter(a, p, k)) /\ \A j \in 1 .. (k - 1) : isActive(EnvAfter(a, p, j))
    ELSE 0

\* C14: a render call of a voice for the samples [start, start+n) writes
\* (adds to) no output sample outside that range; when the envelope becomes
\* inactive at the k-th sample of the call, the samples start .. start+k-1
\* are written and no later one, and the voice is free (no current note,
\* phase increment 0) when the call returns; when the envelope stays active
\* all n samples are written and the voice keeps its note; no other voice
\* is changed by the call.
C14_RenderStopsWhereEnvelopeEnds ==
    [][RendersSamples =>
          LET v == au.v
              k == FirstIdle(AdsrOf(voice[v]), voice[v].p, au.sub)
          IN  /\ ev'.wrote \subseteq au.start .. (au.start + au.sub - 1)
              /\ au.start >= 0 /\ au.start + au.sub <= BlockSize
              /\ k > 0 =>
                    /\ ev'.wrote = au.start .. (au.start + k - 1)
                    /\ ~isVoiceActive(voice'[v])
                    /\ voice'[v].phaseDelta = 0
                    /\ ~isActive(AdsrOf(voice'[v]))
              /\ k = 0 =>
                    /\ ev'.wrote = au.start .. (au.start + au.sub - 1)
                    /\ voice'[v].note = voice[v].note
                    /\ isActive(AdsrOf(voice'[v]))
              /\ \A w \in Voices \ {v} : voice'[w] = voice[w]]_vars

\* a voice's envelope has ended at the first sample of a render call for a
\* whole buffer: one sample was written, the voice is free
C14_Witness ==
    /\ ev.kind = "render" /\ ev.freed
    /\ ev.num = BlockSize /\ ev.start = 0
    /\ ev.wrote = {0}
    /\ ~isVoiceActive(voice[ev.v])

\* ------------------------------------------------------------------------
\* Lifetime of the tables
\* ------------------------------------------------------------------------
\* C15 as stated: no Wavetable object is deleted by a context that holds
\* wtLock; the table a load replaces is deleted after the lock is released.
C15_AsStated ==
    heap.last.by # "none" => ~heap.last.locked

\* a load has just assigned wtSlots[0] inside its locked scope, the table
\* the slot held was deleted by that assignment, and a voice's
\* renderNextBlock is at its getWtSlotsSnapshot call, waiting for wtLock
C15_Witness ==
    /\ ctl.op = "load" /\ ctl.pc = "cs2" /\ wtLock = "ctl"
    /\ ~pre.slots[ctl.slot].isNull
    /\ heap.last = Deletion("ctl", TRUE)
    /\ au.pc = "voices" /\ au.v < numVoices

\* ------------------------------------------------------------------------
\* Declared and decoded dimensions
\* ------------------------------------------------------------------------
\* SpecDecl: the loader on documents that declare their dimensions
DeclSlots == {0, NumSlots - 1}

NextDecl ==
    \/ (\E slot \in DeclSlots, file \in DeclaringFiles \cup {FileA} :
            loadWtgenSlotEnter(slot, file)) /\ UNCHANGED <<synthVars, heap, calc>>
    \/ loadWtgenSlotBuild /\ UNCHANGED <<synthVars, heap, calc>>
    \/ loadWtgenSlotLock /\ UNCHANGED <<synthVars, heap, calc>>
    \/ loadWtgenSlotStoreWt /\ UNCHANGED <<synthVars, calc>>
    \/ loadWtgenSlotStoreJson /\ UNCHANGED <<synthVars, heap, calc>>
    \/ loadWtgenSlotStoreName /\ UNCHANGED <<synthVars, heap, calc>>
    \/ loadWtgenSlotReturn /\ UNCHANGED <<synthVars, heap, calc>>

SpecDecl == Init /\ [][NextDecl]_vars

\* the document declares a tableSize or a frame count, and the complete
\* header of its payload carries another
DeclaredDiffersFromHeader(json) ==
    /\ HasPayload(json) /\ HasMagic(json.data.bytes)
    /\ Len(json.data.bytes) >= HeaderBytes
    /\ \/ json.tableSize > 0 /\ json.tableSize # readHeader(json.data.bytes).tableSize
       \/ json.frames > 0 /\ json.frames # readHeader(json.data.bytes).F

\* C16 as stated: a load of a document whose declared tableSize or frame
\* count differs from the one in the payload's header fails with a
\* validation error.
C16_AsStated ==
    (LoadReturned /\ ctl.slot \in Slots /\ DeclaredDiffersFromHeader(ctl.json))
    => (~ctl.ok /\ ctl.err # ErrNone)

\* a document that declares tableSize 4 over a payload whose header says 2
\* has been loaded: the load returned true and the slot holds a table of 2
C16_Witness ==
    /\ LoadReturned /\ ctl.ok /\ ctl.slot \in Slots
    /\ ctl.json.tableSize = 4
    /\ readHeader(ctl.json.data.bytes).tableSize = 2
    /\ wtSlots[ctl.slot].tableSize = 2
    /\ wtSlotJson[ctl.slot] = ctl.json

\* ------------------------------------------------------------------------
\* SpecAdsr: one key struck, held, released and struck again, under every
\* kind of parameter set the layout allows: attack, decay and release are at
\* least 0.001 s, the sustain level ranges over 0 .. 1.0 inclusive
\* ------------------------------------------------------------------------
ParamFull ==
    [attack |-> 1, decay |-> 1, sustain |-> EnvOne, release |-> 2, level |-> <<1, 0, 0, 0>>]
AdsrParamSets == ParamSets \cup {ParamFull}

AdsrBuffers ==
    {<< >>, <<NoteOnAt(60, 0)>>, <<NoteOnAt(60, 2)>>, <<NoteOffAt(60, 0)>>,
     <<NoteOffAt(60, 1)>>, <<NoteOnAt(60, 0), NoteOffAt(60, 2)>>}

NextAdsr ==
    \/ (\E sr \in Rates : prepareToPlay(sr)) /\ UNCHANGED <<storeVars, heap, calc>>
    \/ (au.pc = "idle" /\ \E p \in AdsrParamSets : setParameters(p))
          /\ UNCHANGED <<storeVars, heap, calc>>
    \/ (\E midi \in AdsrBuffers : processBlockEnter(midi)) /\ UNCHANGED <<storeVars, heap, calc>>
    \/ processNextBlockEvent /\ UNCHANGED <<storeVars, heap, calc>>
    \/ processNextBlockRest /\ UNCHANGED <<storeVars, heap, calc>>
    \/ renderNextBlockLock /\ UNCHANGED <<wtSlots, wtSlotName, wtSlotJson, ctl, pre, saved, heap, calc>>
    \/ getWtSlotsSnapshot /\ UNCHANGED <<wtSlots, wtSlotName, wtSlotJson, ctl, pre, saved, calc>>
    \/ renderNextBlockSamples /\ UNCHANGED <<storeVars, calc>>
    \/ renderVoicesDone /\ UNCHANGED <<storeVars, heap, calc>>

SpecAdsr == Init /\ [][NextAdsr]_vars

AdsrStates == {"idle", "attack", "decay", "sustain", "release"}

\* the envelope stays where it is or takes one edge of
\* Idle -> Attack -> Decay -> Sustain -> Release -> Idle
ChainEdge(s, t) ==
    \/ t = s
    \/ <<s, t>> \in {<<"idle", "attack">>, <<"attack", "decay">>, <<"decay", "sustain">>,
                     <<"sustain", "release">>, <<"release", "idle">>}

\* the moves of a voice's envelope from its present state: one sample of
\* getNextSample, a setParameters call with any parameter set, and the
\* note-on, note-off and hard stop of the voice
EnvelopeMoves(Edge(_, _, _)) ==
    \A v \in Voices :
        LET a == AdsrOf(voice[v])
        IN  /\ a.adsr \in AdsrStates
            /\ isActive(a) <=> a.adsr # "idle"
            /\ Edge(a.adsr, adsrGetNextSample(a, voice[v].p).adsr, voice[v].p)
            /\ \A q \in AdsrParamSets :
                  /\ Edge(a.adsr, adsrSetParameters(a, q).adsr, q)
                  /\ startNote(voice[v], 60, sampleRate, q).adsr = "attack"
            /\ stopNote(voice[v], TRUE).adsr = IF isActive(a) THEN "release" ELSE "idle"
            /\ stopNote(voice[v], FALSE).adsr = "idle"

\* C17 as stated: the envelope moves only along Idle -> Attack -> Decay ->
\* Sustain -> Release -> Idle; noteOn takes it to Attack, noteOff takes it from
\* any active state to Release, a hard stop resets it to Idle, and isActive()
\* is false exactly in Idle.
C17_AsStated ==
    EnvelopeMoves(LAMBDA s, t, p : ChainEdge(s, t))

\* C17: the envelope moves only along Idle -> Attack -> Decay -> Sustain ->
\* Release -> Idle, except that the end of the attack goes to Sustain
\* directly, without a Decay state, when the sustain level is 1.0; noteOn
\* takes it to Attack, noteOff takes it from any active state to Release, a
\* hard stop resets it to Idle, and isActive() is false exactly in Idle.
C17_ChainWithDecaySkippedAtFullSustain ==
    EnvelopeMoves(LAMBDA s, t, p :
                     \/ ChainEdge(s, t)
                     \/ s = "attack" /\ t = "sustain" /\ p.sustain = EnvOne)

\* a voice whose sustain level is 1.0 is in its attack, and its next sample
\* ends the attack
C17_Witness ==
    \E v \in Voices :
        /\ isVoiceActive(voice[v]) /\ voice[v].adsr = "attack"
        /\ voice[v].p.sustain = EnvOne
        /\ adsrGetNextSample(AdsrOf(voice[v]), voice[v].p).adsr = "sustain"
        /\ au.pc = "samples" /\ au.v = v

(***************************************************************************)
(* sampleWavetable: the bilinear read of a table at a phase and a morph.   *)
(* The phase is phase/PhaseOne and the morph is morph/MorphOne; samples    *)
(* are integers, and the value returned is scaled by PhaseOne * MorphOne   *)
(* so that the arithmetic of the interpolation is exact.                   *)
(***************************************************************************)
PhaseOne == 8
MorphOne == 4

\* juce::jmap (t, lo, hi) = lo + t * (hi - lo), with t = t / one; the result
\* is scaled by one
jmap(t, one, lo, hi) == lo * one + t * (hi - lo)

\* a variant that takes the whole morph as the weight of the upper frame
sampleWavetable_MorphAsFraction(wt, phase01, morph) ==
    LET N == wt.tableSize
        F == wt.frames
    IN  IF N <= 1 \/ F <= 0 THEN 0
        ELSE LET framePos == morph * (F - 1)
                 a  == framePos \div MorphOne
                 b  == jmin(a + 1, F - 1)
                 tf == morph
                 idx == phase01 * N
                 i0 == (idx \div PhaseOne) % N
                 i1 == (i0 + 1) % N
                 sf == idx % PhaseOne
                 pa == wt.table[a + 1]
                 pb == wt.table[b + 1]
                 sa == jmap(sf, PhaseOne, pa[i0 + 1], pa[i1 + 1])
                 sb == jmap(sf, PhaseOne, pb[i0 + 1], pb[i1 + 1])
             IN  jmap(tf, MorphOne, sa, sb)

sampleWavetable(wt, phase01, morph) ==
    LET N == wt.tableSize
        F == wt.frames
    IN  IF N <= 1 \/ F <= 0 THEN 0
        ELSE LET framePos == morph * (F - 1)
                 a  == framePos \div MorphOne
                 b  == jmin(a + 1, F - 1)
                 tf == framePos % MorphOne
                 idx == phase01 * N
                 i0 == (idx \div PhaseOne) % N
                 i1 == (i0 + 1) % N
                 sf == idx % PhaseOne
                 pa == wt.table[a + 1]
                 pb == wt.table[b + 1]
                 sa == jmap(sf, PhaseOne, pa[i0 + 1], pa[i1 + 1])
                 sb == jmap(sf, PhaseOne, pb[i0 + 1], pb[i1 + 1])
             IN  jmap(tf, MorphOne, sa, sb)

\* tables of samples to read from, every row of mean zero as the builder
\* leaves them: one, two and three frames, and a table of a single sample
SampleTable(rows) ==
    [isNull |-> FALSE, tableSize |-> Len(rows[1]), frames |-> Len(rows),
     table |-> rows, name |-> NameA]

SamplerTables ==
    { SampleTable(<<<<0, 4, 0, -4>>, <<8, 8, -8, -8>>>>),
      SampleTable(<<<<0, 4, 0, -4>>, <<-6, 2, 6, -2>>>>),
      SampleTable(<<<<3, -3>>, <<4, -4>>, <<-2, 2>>>>),
      SampleTable(<<<<3, -3>>, <<-4, 4>>, <<-2, 2>>>>),
      SampleTable(<<<<3, -3>>, <<4, -4>>, <<6, -6>>>>),
      SampleTable(<<<<2, -2, 4, -4>>>>),
      SampleTable(<<<<0>>, <<0>>>>) }

\* the call under way: a table, a phase in [0, 1) and a morph in [0, 1]
SamplerCall(wt, phase01, morph) ==
    [fn |-> "sampleWavetable", done |-> FALSE, wt |-> wt,
     phase01 |-> phase01, morph |-> morph, out |-> 0]

InitSampler ==
    /\ ProcessorInit
    /\ \E wt \in SamplerTables, phase01 \in 0 .. PhaseOne - 1, morph \in 0 .. MorphOne :
          calc = SamplerCall(wt, phase01, morph)

sampleWavetableCall ==
    /\ calc.fn = "sampleWavetable"
    /\ ~calc.done
    /\ calc' = [calc EXCEPT !.done = TRUE,
                            !.out = sampleWavetable(calc.wt, calc.phase01, calc.morph)]

NextSampler ==
    \/ sampleWavetableCall /\ UNCHANGED <<storeVars, synthVars, heap>>

SpecSampler == InitSampler /\ [][NextSampler]_vars

\* the linear read of one frame alone at a phase, on the scale of the
\* sampler's result
FrameAlone(wt, k, phase01) ==
    LET N == wt.tableSize
        idx == phase01 * N
        i0 == (idx \div PhaseOne) % N
        i1 == (i0 + 1) % N
        sf == idx % PhaseOne
        row == wt.table[k + 1]
    IN  MorphOne * ((PhaseOne - sf) * row[i0 + 1] + sf * row[i1 + 1])

Sampled == calc.fn = "sampleWavetable" /\ calc.done /\ calc.wt.frames >= 2

\* the tables that have the same frame k as the one read and the same shape
SameFrame(wt, k) ==
    { o \in SamplerTables : /\ o.tableSize = wt.tableSize
                            /\ o.frames = wt.frames
                            /\ o.table[k + 1] = wt.table[k + 1] }

\* C18: for a table of two frames or more and any phase in [0, 1), the sample
\* at morph 0 is the linear read of frame 0 alone, the sample at morph 1 is
\* that of the last frame alone, and the sample at a morph whose frame
\* position is the integer k is that of frame k alone, whatever the other
\* frames hold; between two frames the sample is the weighted mean of the
\* reads of the two, so that it has no jump where the frame changes.
C18_MorphEndpointsReadOneFrame ==
    Sampled =>
        LET wt == calc.wt
            F  == wt.frames
            framePos == calc.morph * (F - 1)
            a  == framePos \div MorphOne
            tf == framePos % MorphOne
        IN  /\ calc.morph = 0 => calc.out = FrameAlone(wt, 0, calc.phase01)
            /\ calc.morph = MorphOne => calc.out = FrameAlone(wt, F - 1, calc.phase01)
            /\ tf = 0 =>
                  /\ calc.out = FrameAlone(wt, a, calc.phase01)
                  /\ \A o \in SameFrame(wt, a) :
                        sampleWavetable(o, calc.phase01, calc.morph) = calc.out
            /\ tf > 0 =>
                  calc.out * MorphOne =
                      (MorphOne - tf) * FrameAlone(wt, a, calc.phase01)
                      + tf * FrameAlone(wt, a + 1, calc.phase01)

\* a read at an integer frame position strictly inside the table, between
\* two samples, of a table that has a sibling differing in the other frames
C18_Witness ==
    /\ Sampled
    /\ calc.wt.frames >= 3
    /\ (calc.morph * (calc.wt.frames - 1)) % MorphOne = 0
    /\ calc.morph \notin {0, MorphOne}
    /\ (calc.phase01 * calc.wt.tableSize) % PhaseOne # 0
    /\ Cardinality(SameFrame(calc.wt, (calc.morph * (calc.wt.frames - 1)) \div MorphOne)) >= 2
    /\ calc.out # 0

(***************************************************************************)
(* linearBandEdges as a routine of its own: called with any bins and any   *)
(* band count, under every rounding of the interior edges.                 *)
(***************************************************************************)
MaxBin == 6
MaxBands == 4

EdgesCall(loBin, hiBin, bands) ==
    [fn |-> "linearBandEdges", done |-> FALSE, loBin |-> loBin,
     hiBin |-> hiBin, bands |-> bands, out |-> << >>]

InitEdges ==
    /\ ProcessorInit
    /\ \E loBin \in -1 .. MaxBin, hiBin \in -1 .. MaxBin, bands \in 0 .. MaxBands :
          calc = EdgesCall(loBin, hiBin, bands)

linearBandEdgesCall ==
    /\ calc.fn = "linearBandEdges"
    /\ ~calc.done
    /\ \E low \in SUBSET InexactEdges(calc.loBin, calc.hiBin, calc.bands) :
          calc' = [calc EXCEPT !.done = TRUE,
                               !.out = linearBandEdgesRounded(calc.loBin, calc.hiBin,
                                                              calc.bands, low)]

NextEdges ==
    \/ linearBandEdgesCall /\ UNCHANGED <<storeVars, synthVars, heap>>

SpecEdges == InitEdges /\ [][NextEdges]_vars

EdgesReturned == calc.fn = "linearBandEdges" /\ calc.done

\* C20: for B >= 1 and hiBin >= loBin >= 0, linearBandEdges(loBin, hiBin, B)
\* returns B + 1 edges, none smaller than the one before it, the first being
\* loBin and the last hiBin.
C20_EdgesCountOrderAndEnds ==
    (EdgesReturned /\ calc.bands >= 1 /\ calc.loBin >= 0 /\ calc.hiBin >= calc.loBin) =>
        /\ Len(calc.out) = calc.bands + 1
        /\ \A i \in 1 .. calc.bands : calc.out[i] <= calc.out[i + 1]
        /\ calc.out[1] = calc.loBin
        /\ calc.out[calc.bands + 1] = calc.hiBin

\* three bands or more over a range that starts above bin 0, with interior
\* edges strictly between the ends and one of them floored below its exact
\* position
C20_Witness ==
    /\ EdgesReturned
    /\ calc.bands >= 3
    /\ calc.loBin >= 1
    /\ calc.hiBin > calc.loBin
    /\ \E i \in 2 .. calc.bands : calc.loBin < calc.out[i] /\ calc.out[i] < calc.hiBin
    /\ calc.out # linearBandEdges(calc.loBin, calc.hiBin, calc.bands)

(***************************************************************************)
(* The samples of a table: what buildWavetableFromWtgenJson does between   *)
(* the magnitudes of a frame and the table it returns.  The FFT arithmetic *)
(* is not modelled: a frame whose magnitudes are all finite reconstructs   *)
(* to some finite row, a frame with an infinite magnitude to a row of      *)
(* non-finite samples (log (+inf) = +inf enters the cepstrum, the forward  *)
(* transform adds +inf and -inf, and every sample of the last inverse      *)
(* transform is a sum over all bins).  A row is finite or not as a whole;  *)
(* the samples of a finite row are s[i] / den.                             *)
(***************************************************************************)
\* the least noise code qdb for which  std::pow (10.0f, qdb * 0.5f / 20.0f)
\* is above the largest float: 10^(1542/40) = 10^38.55 > 3.4028e38.  (A code
\* just below can still overflow in the product with N/2; no payload here
\* carries such a code.)
NoiseCodeOverflow == 1542

\* the magnitude written for a bin is +inf
isInfMag(m) == m.src = "noise" /\ m.code >= NoiseCodeOverflow

I16LE(x) == U16LE((x + 65536) % 65536)

RECURSIVE NoiseFrames(_, _)
\* frames without harmonics and with one noise band: the band's code of
\* frame f is qdbs[f], then three zero reserved words
NoiseFrames(qdbs, f) ==
    IF f > Len(qdbs) THEN << >>
    ELSE I16LE(qdbs[f]) \o U16LE(0) \o U16LE(0) \o U16LE(0) \o NoiseFrames(qdbs, f + 1)

NoisePayload(ts, qdbs) ==
    magic \o U16LE(ts) \o U16LE(Len(qdbs)) \o U16LE(0) \o U16LE(1) \o NoiseFrames(qdbs, 1)

\* payloads that decode: harmonics only, quiet noise, noise codes at and
\* above the overflow of the float power, and such a code in a band that
\* covers no bin (tableSize 2)
LevelPayloads ==
    { PayloadA, PayloadB,
      NoisePayload(4, <<-12>>),
      NoisePayload(4, <<-12, 0>>),
      NoisePayload(4, <<NoiseCodeOverflow>>),
      NoisePayload(4, <<-12, Pow2(15) - 1>>),
      NoisePayload(2, <<Pow2(15) - 1>>) }

Abs(x) == IF x < 0 THEN -x ELSE x

RECURSIVE SumFrom(_, _)
SumFrom(s, i) == IF i > Len(s) THEN 0 ELSE s[i] + SumFrom(s, i + 1)

FiniteRow(s) == [finite |-> TRUE, s |-> s]
NonFiniteRow(N) == [finite |-> FALSE, s |-> [i \in 1 .. N |-> 0]]

\* rows a reconstruction of N samples may deliver for finite magnitudes
ReconstructedRows(N) ==
    IF N = 4 THEN {<<3, 1, 0, 0>>, <<5, -1, 2, 2>>, <<-2, -6, 1, 3>>, <<2, 2, 2, 2>>,
                     <<0, 4, -4, 0>>}
    ELSE IF N = 2 THEN {<<1, 0>>, <<3, -1>>, <<-4, -2>>}
    ELSE {[i \in 1 .. N |-> 1]}

\* minimumPhaseFromMagRfft on the magnitudes of one frame, and the copy of
\* its output into the row
reconstructRow(mag, N, time) ==
    IF \E k \in DOMAIN mag : isInfMag(mag[k]) THEN NonFiniteRow(N) ELSE FiniteRow(time)

\* dst[i] -= mean, with mean = sum / N: the row in units of 1/N.  With a
\* non-finite sample the sum and the mean are non-finite and so is every
\* difference.
removeDC(row, N) ==
    IF ~row.finite THEN row
    ELSE FiniteRow([i \in 1 .. N |-> N * row.s[i] - SumFrom(row.s, 1)])

RECURSIVE MaxAbsFrom(_, _)
MaxAbsFrom(s, i) == IF i > Len(s) THEN 0 ELSE jmax(Abs(s[i]), MaxAbsFrom(s, i + 1))

RECURSIVE FinitePeakFrom(_, _)
\* peak = jmax (peak, table.getMagnitude (f, 0, N)) over the finite rows
FinitePeakFrom(rows, f) ==
    IF f > Len(rows) THEN 0
    ELSE jmax(IF rows[f].finite THEN MaxAbsFrom(rows[f].s, 1) ELSE 0,
              FinitePeakFrom(rows, f + 1))

\* the peak the loop arrives at.  The magnitude of a row of non-finite
\* samples is what the comparisons of getMagnitude make of them, and
\* jmax (peak, x) keeps or drops a NaN by the order of its arguments: the
\* peak is then NaN, +inf, or the peak of the finite rows.
PeakOutcomes(rows) ==
    IF \A f \in DOMAIN rows : rows[f].finite
    THEN {[kind |-> "finite", v |-> FinitePeakFrom(rows, 1)]}
    ELSE {[kind |-> "nan", v |-> 0], [kind |-> "inf", v |-> 0],
          [kind |-> "finite", v |-> FinitePeakFrom(rows, 1)]}

\* if (peak > 0.0f) table.applyGain (0.999f / peak): rows and denominator
\* after the gain.  A gain of 0.999 / inf = 0 zeroes the finite rows; a
\* non-finite sample times any gain is non-finite.
applyPeakGain(rows, den, peak) ==
    IF peak.kind = "finite" /\ peak.v > 0
    THEN [rows |-> [f \in DOMAIN rows |->
                       IF rows[f].finite
                       THEN FiniteRow([i \in DOMAIN rows[f].s |-> rows[f].s[i] * 999])
                       ELSE rows[f]],
          den |-> peak.v * 1000]
    ELSE IF peak.kind = "inf"
    THEN [rows |-> [f \in DOMAIN rows |->
                       IF rows[f].finite
                       THEN FiniteRow([i \in DOMAIN rows[f].s |-> 0])
                       ELSE rows[f]],
          den |-> 1]
    ELSE [rows |-> rows, den |-> den]

\* the build of a table from a payload, at the frame loop
LevelsCall(wt) ==
    [fn |-> "buildWavetable", pc |-> "frames", done |-> FALSE,
     N |-> wt.tableSize, F |-> wt.frames, mag |-> wt.table,
     rows |-> << >>, den |-> 1]

InitLevels ==
    /\ ProcessorInit
    /\ \E bytes \in LevelPayloads :
          LET b == buildWavetableFromWtgenJson(GoodDoc(bytes), NameA)
          IN  b.ok /\ calc = LevelsCall(b.wt)

\* the frame loop: each frame reconstructed and copied into its row
reconstructFrames ==
    /\ calc.fn = "buildWavetable" /\ calc.pc = "frames"
    /\ \E time \in [1 .. calc.F -> ReconstructedRows(calc.N)] :
          calc' = [calc EXCEPT !.pc = "dc",
                               !.rows = [f \in 1 .. calc.F |->
                                            reconstructRow(calc.mag[f], calc.N, time[f])]]

\* the DC loop
removeDCFrames ==
    /\ calc.fn = "buildWavetable" /\ calc.pc = "dc"
    /\ calc' = [calc EXCEPT !.pc = "peak",
                            !.rows = [f \in 1 .. calc.F |-> removeDC(calc.rows[f], calc.N)],
                            !.den = calc.N]

\* the peak loop, the gain and the return
normalizePeak ==
    /\ calc.fn = "buildWavetable" /\ calc.pc = "peak"
    /\ \E peak \in PeakOutcomes(calc.rows) :
          LET g == applyPeakGain(calc.rows, calc.den, peak)
          IN  calc' = [calc EXCEPT !.pc = "return", !.done = TRUE,
                                   !.rows = g.rows, !.den = g.den]

NextLevels ==
    \/ reconstructFrames /\ UNCHANGED <<storeVars, synthVars, heap>>
    \/ removeDCFrames /\ UNCHANGED <<storeVars, synthVars, heap>>
    \/ normalizePeak /\ UNCHANGED <<storeVars, synthVars, heap>>

SpecLevels == InitLevels /\ [][NextLevels]_vars

TableBuilt == calc.fn = "buildWavetable" /\ calc.done

\* the row has mean zero and no sample above 1.0 in absolute value
RowLevelled(row, den) ==
    /\ row.finite
    /\ SumFrom(row.s, 1) = 0
    /\ \A i \in DOMAIN row.s : Abs(row.s[i]) <= den

\* C19 as stated: for every payload that decodes, each row of the table the
\* build returns has mean zero after the DC removal, and no sample of the
\* table is above 1.0 in absolute value after the one global gain.
C19_AsStated ==
    TableBuilt => \A f \in 1 .. calc.F : RowLevelled(calc.rows[f], calc.den)

\* the same for the payloads whose magnitudes are all finite
LevelledWhenMagnitudesFinite ==
    (TableBuilt /\ \A f \in 1 .. calc.F : \A k \in DOMAIN calc.mag[f] : ~isInfMag(calc.mag[f][k]))
    => \A f \in 1 .. calc.F : RowLevelled(calc.rows[f], calc.den)

\* a table of one frame has been built from a payload whose noise band
\* covers bin 1 with the code at which the float power overflows: its row
\* is not finite
C19_Witness ==
    /\ TableBuilt
    /\ calc.N = 4 /\ calc.F = 1
    /\ calc.mag[1][1] = MagNoise(NoiseCodeOverflow)
    /\ ~calc.rows[1].finite

(***************************************************************************)
(* minimumPhaseFromMagRfft as a routine of its own: called with a          *)
(* magnitude array of any length, any N, and an output vector that may     *)
(* already hold samples.  The arithmetic is not modelled; what is, is      *)
(* which elements of the arrays the routine touches and the length of      *)
(* the output.                                                             *)
(***************************************************************************)
MaxCycle == 9
MaxMagLen == 6

\* the routine from entry to return: ok, the indices of magRfft it has
\* read (rk = k <= N/2 ? k : N - k for k in 0 .. N-1), whether outTime was
\* written, and the length of outTime at the return
minimumPhaseRun(magLen, N, outLen) ==
    IF ~minimumPhaseFromMagRfft(magLen, N)
    THEN [ok |-> FALSE, read |-> {}, wrote |-> FALSE, outLen |-> outLen]
    ELSE [ok |-> TRUE,
          read |-> {(IF k <= N \div 2 THEN k ELSE N - k) : k \in 0 .. (N - 1)},
          wrote |-> TRUE, outLen |-> N]

MinPhaseCall(magLen, N, outLen) ==
    [fn |-> "minimumPhase", done |-> FALSE, magLen |-> magLen, N |-> N,
     outLen |-> outLen,
     out |-> [ok |-> FALSE, read |-> {}, wrote |-> FALSE, outLen |-> outLen]]

InitMinPhase ==
    /\ ProcessorInit
    /\ \E magLen \in 0 .. MaxMagLen, N \in -1 .. MaxCycle, outLen \in {0, 3} :
          calc = MinPhaseCall(magLen, N, outLen)

minimumPhaseFromMagRfftCall ==
    /\ calc.fn = "minimumPhase"
    /\ ~calc.done
    /\ calc' = [calc EXCEPT !.done = TRUE,
                            !.out = minimumPhaseRun(calc.magLen, calc.N, calc.outLen)]

NextMinPhase ==
    \/ minimumPhaseFromMagRfftCall /\ UNCHANGED <<storeVars, synthVars, heap>>

SpecMinPhase == InitMinPhase /\ [][NextMinPhase]_vars

MinPhaseReturned == calc.fn = "minimumPhase" /\ calc.done

\* C21: the minimum-phase reconstruction returns failure, having read no
\* element of the magnitude array and written nothing to the output, when N
\* is not a power of two or the magnitude array has not N/2+1 entries; when
\* it succeeds the output has exactly N samples and no read went past the
\* end of the magnitude array.
C21_FailsUntouchedOrReturnsN ==
    MinPhaseReturned =>
        /\ (~IsPowerOfTwo(calc.N) \/ calc.magLen # (calc.N \div 2) + 1) =>
              /\ ~calc.out.ok
              /\ calc.out.read = {}
              /\ ~calc.out.wrote
              /\ calc.out.outLen = calc.outLen
        /\ calc.out.ok =>
              /\ calc.out.outLen = calc.N
              /\ \A k \in calc.out.read : k < calc.magLen

\* a call with N = 8 and an array of 3 magnitudes (5 are needed) over an
\* output vector that holds 3 samples has failed and left them
C21_Witness ==
    /\ MinPhaseReturned
    /\ calc.N = 8 /\ calc.magLen = 3 /\ calc.outLen = 3
    /\ ~calc.out.ok /\ calc.out.outLen = 3

(***************************************************************************)
(* buildWavetableFromWtgenJson as a routine of its own, on documents whose *)
(* payload header, banding and length range over a catalogue.              *)
(***************************************************************************)
DecodeSizes == {1, 2, 6, 8}
DecodeFrames == {0, 1, 2}
DecodeHarmonics == {0, 1, 3}
DecodeBands == {0, 1, 3}
DecodeLoBins == {-1, 0, 1, 6}
DecodeHiBins == {0, 2, 7}
\* bytes missing at the end of the payload
DecodeDrops == {0, 1}

\* a good document with the banding  p.noise.banding = {loBin, hiBin}
DocBanded(bytes, loBin, hiBin) == [GoodDoc(bytes) EXCEPT !.loBin = loBin, !.hiBin = hiBin]

DecodeDocs ==
    { DocBanded(Cut(Payload(ts, F, H, B), Len(Payload(ts, F, H, B)) - drop), lo, hi) :
        ts \in DecodeSizes, F \in DecodeFrames, H \in DecodeHarmonics, B \in DecodeBands,
        lo \in DecodeLoBins, hi \in DecodeHiBins, drop \in DecodeDrops }

DecodeCall(json) ==
    [fn |-> "decode", done |-> FALSE, json |-> json, out |-> BuildFail(ErrNone, 0)]

InitDecode ==
    /\ ProcessorInit
    /\ \E json \in DecodeDocs : calc = DecodeCall(json)

buildWavetableFromWtgenJsonCall ==
    /\ calc.fn = "decode"
    /\ ~calc.done
    /\ calc' = [calc EXCEPT !.done = TRUE,
                            !.out = buildWavetableFromWtgenJson(calc.json, NameA)]

NextDecode ==
    \/ buildWavetableFromWtgenJsonCall /\ UNCHANGED <<storeVars, synthVars, heap>>

SpecDecode == InitDecode /\ [][NextDecode]_vars

Decoded == calc.fn = "decode" /\ calc.done /\ calc.out.ok

\* the bins of a decoded document that hold a harmonic (bin 1 + h, below
\* the Nyquist bin, which is zeroed) and lie in the range of a noise band
HarmonicBinsInBand(json) ==
    LET hd == readHeader(json.data.bytes)
        nBins == (hd.tableSize \div 2) + 1
        hiBin == IF json.hiBin <= 0 THEN nBins - 1 ELSE json.hiBin
        loBin == IF json.loBin <= 0 THEN jlimit(0, nBins - 1, hd.H + 1) ELSE json.loBin
        edges == linearBandEdges(loBin, hiBin, jmax(1, hd.B))
    IN  { k \in 1 .. (nBins - 2) :
            /\ k <= hd.H
            /\ \E b \in 1 .. hd.B : edges[b] <= k /\ k < edges[b + 1] }

\* C22 as stated: where a harmonic bin lies in the bin range of a noise
\* band, the magnitude of that bin after decoding is the harmonic magnitude
\* plus the band magnitude: it is not the band's magnitude alone.
C22_AsStated ==
    Decoded =>
        \A f \in 1 .. calc.out.wt.frames : \A k \in HarmonicBinsInBand(calc.json) :
            calc.out.wt.table[f][k].src # "noise"

\* a document of tableSize 8 with three harmonics and one band whose
\* banding starts at bin 1 has been decoded: bin 1 of its first frame
\* holds the magnitude of the noise code alone
C22_Witness ==
    /\ Decoded
    /\ readHeader(calc.json.data.bytes).tableSize = 8
    /\ readHeader(calc.json.data.bytes).H = 3
    /\ calc.json.loBin = 1
    /\ 1 \in HarmonicBinsInBand(calc.json)
    /\ calc.out.wt.table[1][1] = MagNoise(-12)

\* ------------------------------------------------------------------------
\* Envelope times and the playback rate
\* ------------------------------------------------------------------------
\* juce::ADSR keeps a sample rate of its own, 44100.0 unless
\* ADSR::setSampleRate is called, which no voice does: the unit of Rates.
\* A duration parameter of d lasts d / adsrSampleRate seconds.
adsrSampleRate == 1

\* C23 as stated: at the playback rate sr given to prepareToPlay, the attack
\* stage lasts attack * sr rendered samples, attack being in seconds: a
\* voice that enters a render call at the start of its attack and renders
\* fewer samples than that is still in its attack stage after the call.
C23_AsStated ==
    [][(/\ RendersSamples
        /\ voice[au.v].adsr = "attack" /\ voice[au.v].env = 0
        /\ au.sub * adsrSampleRate < voice[au.v].p.attack * sampleRate)
       => voice'[au.v].adsr = "attack"]_vars

\* the parameters a render call works with are those read at its start
ParametersReadAtEveryCall ==
    [][(au.pc = "voices" /\ au'.pc = "locked") => voice'[au.v].p = params]_vars

\* at twice the envelope's own rate, a voice with an attack that should
\* last 4 samples has rendered 2 and stands at the top of its decay
C23_Witness ==
    /\ ev.kind = "render" /\ ev.num = 2 /\ ~ev.freed
    /\ sampleRate = 2 * adsrSampleRate
    /\ voice[ev.v].p.attack = 2
    /\ voice[ev.v].adsr = "decay" /\ voice[ev.v].env = EnvOne

\* ------------------------------------------------------------------------
\* The three entries of a slot
\* ------------------------------------------------------------------------
\* the table, the JSON text and the name of slot i are what one call left:
\* nothing, or the table built from that text under the name hint that goes
\* with that name (loadWtgenSlot stores the file name and builds under the
\* name without its extension; setStateInformation stores the hint itself)
SlotFromOneCall(i) ==
    \/ wtSlots[i].isNull /\ wtSlotJson[i] = EmptyText /\ wtSlotName[i] = EmptyName
    \/ \E hint \in {wtSlotName[i], getFileNameWithoutExtension([name |-> wtSlotName[i]])} :
          LET b == buildWavetableFromWtgenJson(wtSlotJson[i], hint)
          IN  b.ok /\ b.wt = wtSlots[i]

readLEU16Bytes(bytes, off) == IF canRead(bytes, off, 2) THEN {off, off + 1} ELSE {}

\* the byte offsets n consecutive readLEU16 / readLEI16 calls read
RECURSIVE readLEU16sBytes(_, _, _)
readLEU16sBytes(bytes, off, n) ==
    IF n = 0 THEN {}
    ELSE readLEU16Bytes(bytes, off)
             \cup readLEU16sBytes(bytes, readLEU16(bytes, off).off, n - 1)

\* variant: the noise loop stops at the band's upper edge only
magBinsWritten_NoBinLimit(N, H, B, edges) ==
    LET nBins == (N \div 2) + 1
    IN  {1 + h : h \in {g \in 0 .. (H - 1) : 1 + g >= 0 /\ 1 + g < nBins}}
        \cup UNION {{k \in edges[b + 1] .. (edges[b + 2] - 1) : TRUE} : b \in 0 .. (B - 1)}
        \cup {0}
        \cup (IF nBins > 1 THEN {nBins - 1} ELSE {})

\* the indices of mag written while one frame is decoded
magBinsWritten(N, H, B, edges) ==
    LET nBins == (N \div 2) + 1
    IN  \* if (bin >= 0 && bin < nBins) mag[bin] = binMag;
        {1 + h : h \in {g \in 0 .. (H - 1) : 1 + g >= 0 /\ 1 + g < nBins}}
        \* for (k = a; k < c && k < nBins; ++k) mag[k] = binMag;
        \cup UNION {{k \in edges[b + 1] .. (edges[b + 2] - 1) : k < nBins} : b \in 0 .. (B - 1)}
        \* mag[0] = 0;  if (nBins > 1) mag[nBins - 1] = 0;
        \cup {0}
        \cup (IF nBins > 1 THEN {nBins - 1} ELSE {})

NoAccess == [reads |-> {}, bins |-> {}]

\* the bytes read and the bins written by buildWavetableFromWtgenJson
decodeAccess(json) ==
    LET bytes == json.data.bytes
        size == Len(bytes)
        hd == readHeader(bytes)
        N == hd.tableSize
        nBins == (N \div 2) + 1
        hiBin == IF json.hiBin <= 0 THEN nBins - 1 ELSE json.hiBin
        loBin == IF json.loBin <= 0 THEN jlimit(0, nBins - 1, hd.H + 1) ELSE json.loBin
        edges == linearBandEdges(loBin, hiBin, jmax(1, hd.B))
        magicBytes == 0 .. (Len(magic) - 1)
        headerBytes == magicBytes \cup readLEU16sBytes(bytes, Len(magic), 4)
        words == hd.F * (hd.H + hd.B + ReservedWords)
    IN  IF json.empty \/ ~json.parses \/ json.schema # "wtgen-1"
           \/ json.op # "spectralData" \/ json.codec # "harm-noise-framepack-v1"
           \/ json.data.b64 # "ok"
        THEN NoAccess
        ELSE IF ~canRead(bytes, 0, Len(magic)) THEN NoAccess
        ELSE IF SubSeq(bytes, 1, Len(magic)) # magic THEN [NoAccess EXCEPT !.reads = magicBytes]
        ELSE IF \/ hd.tableSize <= 0 \/ hd.F <= 0 \/ hd.H < 0 \/ hd.B < 0
                \/ ~IsShiftOfRoundLog2(hd.tableSize)
                \/ size < expectedMin(hd.F, hd.H, hd.B)
        THEN [NoAccess EXCEPT !.reads = headerBytes]
        ELSE [reads |-> headerBytes \cup readLEU16sBytes(bytes, hd.off, words),
              bins |-> magBinsWritten(N, hd.H, hd.B, edges)]

\* payloads shorter than the header, and payloads with bytes after the
\* last frame
AccessLengths == {0, 3, 7, 8, 14, 15}
AccessDocs ==
    DecodeDocs
    \cup { DocBanded(Cut(Payload(2, 1, 1, 1), n), 0, 0) : n \in AccessLengths }
    \cup { DocBanded(Payload(ts, 1, H, 1) \o <<1, 2, 3>>, lo, 7) :
             ts \in DecodeSizes, H \in DecodeHarmonics, lo \in DecodeLoBins }
    \cup { DocBanded(<<1, 2, 3, 4, 5, 6, 7, 8>>, 0, 0) }

AccessCall(json) ==
    [fn |-> "access", done |-> FALSE, json |-> json, out |-> BuildFail(ErrNone, 0),
     reads |-> {}, bins |-> {}]

InitAccess ==
    /\ ProcessorInit
    /\ \E json \in AccessDocs : calc = AccessCall(json)

decodeAccessCall ==
    /\ calc.fn = "access"
    /\ ~calc.done
    /\ calc' = [calc EXCEPT !.done = TRUE,
                            !.out = buildWavetableFromWtgenJson(calc.json, NameA),
                            !.reads = decodeAccess(calc.json).reads,
                            !.bins = decodeAccess(calc.json).bins]

NextAccess ==
    \/ decodeAccessCall /\ UNCHANGED <<storeVars, synthVars, heap>>

SpecAccess == InitAccess /\ [][NextAccess]_vars

AccessDone == calc.fn = "access" /\ calc.done

\* C25: a decode reads no byte outside the payload buffer and writes no
\* magnitude bin outside 0 .. tableSize/2, whatever the payload, the header
\* and the banding; after a successful decode the read offset is
\* 15 + F * (2*H + 2*B + 6).
C25_DecodeStaysInBounds ==
    AccessDone =>
        LET bytes == calc.json.data.bytes
            hd == readHeader(bytes)
        IN  /\ calc.reads \subseteq 0 .. (Len(bytes) - 1)
            /\ calc.bins \subseteq 0 .. (hd.tableSize \div 2)
            /\ calc.out.ok =>
                   calc.out.off = HeaderBytes + hd.F * (2 * hd.H + 2 * hd.B + 2 * ReservedWords)

\* a payload of tableSize 8 (bins 0..4) with two frames, three harmonics
\* and three bands whose banding runs from bin 1 to bin 7 has been decoded:
\* every byte was read and bins 0..4 were written
C25_Witness ==
    /\ AccessDone /\ calc.out.ok
    /\ readHeader(calc.json.data.bytes).tableSize = 8
    /\ readHeader(calc.json.data.bytes).F = 2
    /\ readHeader(calc.json.data.bytes).H = 3
    /\ readHeader(calc.json.data.bytes).B = 3
    /\ calc.json.loBin = 1 /\ calc.json.hiBin = 7
    /\ calc.reads = 0 .. (Len(calc.json.data.bytes) - 1)
    /\ calc.bins = 0 .. 4
    /\ calc.out.off = 51

\* ------------------------------------------------------------------------
\* One voice and its four oscillator phases.  A phase is kept in units of
\* 1/CycleUnits of a cycle, the increment in the same units per sample.
\* ------------------------------------------------------------------------
CycleUnits == 3
Oscs == 1 .. 4

\* phaseWrap: x -= std::floor (x)
phaseWrap(x) == x - CycleUnits * (x \div CycleUnits)

\* variant: an oscillator at or below the mute threshold keeps its phase
advancePhases_MutedHold(phase, phaseDelta, oscLevels) ==
    [k \in Oscs |-> IF oscLevels[k] <= 0
                    THEN phase[k]
                    ELSE phaseWrap(phase[k] + phaseDelta[k])]

\* the oscillator loop of one sample: a muted oscillator advances its phase
\* and continues, the others add their sample and advance their phase
advancePhases(phase, phaseDelta, oscLevels) ==
    [k \in Oscs |-> IF oscLevels[k] <= 0
                    THEN phaseWrap(phase[k] + phaseDelta[k])
                    ELSE phaseWrap(phase[k] + phaseDelta[k])]

\* the phases after n samples
RECURSIVE phasesAfter(_, _, _, _)
phasesAfter(phase, phaseDelta, oscLevels, n) ==
    IF n = 0 THEN phase
    ELSE phasesAfter(advancePhases(phase, phaseDelta, oscLevels), phaseDelta, oscLevels, n - 1)

ParamMuted ==
    [attack |-> 2, decay |-> 1, sustain |-> 3, release |-> 3, level |-> <<0, 0, 0, 0>>]
VoiceParamSets == ParamSets \cup {ParamMuted}
\* playback rates a voice can be started under; 0 is a rate not yet set
VoiceRates == {0, 1, 2, 3}
VoiceNotes == {60, 72}

\* phase, phaseDelta: the voice's two arrays; lvl, wrapped: the oscillator
\* levels of the last render call that ran its loop, and whether a phase
\* passed the end of the cycle in it
VoiceCall ==
    [fn |-> "voice", done |-> TRUE, vc |-> FreeVoice,
     phase |-> [k \in Oscs |-> 0], phaseDelta |-> [k \in Oscs |-> 0],
     lvl |-> [k \in Oscs |-> 0], wrapped |-> FALSE]

InitVoice ==
    /\ ProcessorInit
    /\ calc = VoiceCall

\* Synthesiser::startVoice on a free voice: the note is set, then startNote
startNoteCall(n, sr, p) ==
    /\ calc.fn = "voice"
    /\ ~isVoiceActive(calc.vc)
    /\ LET v1 == [startNote(calc.vc, n, sr, p) EXCEPT !.note = n, !.keyDown = TRUE]
       IN  calc' = [calc EXCEPT !.vc = v1,
                                !.phase = [k \in Oscs |-> 0],
                                !.phaseDelta = [k \in Oscs |-> v1.phaseDelta],
                                !.wrapped = FALSE]

\* stopNote (velocity, allowTailOff)
stopNoteCall(allowTailOff) ==
    /\ calc.fn = "voice"
    /\ calc' = [calc EXCEPT !.vc = [stopNote(calc.vc, allowTailOff)
                                       EXCEPT !.keyDown = FALSE],
                            !.phaseDelta = IF allowTailOff THEN @ ELSE [k \in Oscs |-> 0]]

\* renderNextBlock (out, startSample, n) with the parameter values p
renderNextBlockCall(n, p) ==
    /\ calc.fn = "voice"
    /\ IF calc.phaseDelta[1] = 0
       THEN calc' = calc                       \* if (phaseDelta[0] == 0.0f) return;
       ELSE LET v1 == updateADSR(calc.vc, p)
                r == renderLoop(AdsrOf(v1), p, n, 0)
            IN  calc' = [calc EXCEPT
                    !.vc = IF r.freed THEN FreeVoice ELSE WithAdsr(v1, r.a),
                    !.phase = phasesAfter(calc.phase, calc.phaseDelta, p.level, r.written),
                    !.phaseDelta = IF r.freed THEN [k \in Oscs |-> 0] ELSE @,
                    !.lvl = p.level,
                    !.wrapped = \E m \in 0 .. (r.written - 1) :
                                   phasesAfter(calc.phase, calc.phaseDelta, p.level, m)[1]
                                       + calc.phaseDelta[1] >= CycleUnits]

NextVoice ==
    \/ (\E n \in VoiceNotes, sr \in VoiceRates, p \in VoiceParamSets : startNoteCall(n, sr, p))
          /\ UNCHANGED <<storeVars, synthVars, heap>>
    \/ (\E allowTailOff \in BOOLEAN : stopNoteCall(allowTailOff))
          /\ UNCHANGED <<storeVars, synthVars, heap>>
    \/ (\E n \in 1 .. BlockSize, p \in VoiceParamSets : renderNextBlockCall(n, p))
          /\ UNCHANGED <<storeVars, synthVars, heap>>

SpecVoice == InitVoice /\ [][NextVoice]_vars

\* C26: after any sequence of startNote, stopNote and renderNextBlock calls
\* each of the four phases of the voice lies in [0, 1) and the four are
\* equal, muted oscillators included.
C26_PhasesInCycleAndEqual ==
    calc.fn = "voice" =>
        \A k \in Oscs : /\ calc.phase[k] >= 0 /\ calc.phase[k] < CycleUnits
                        /\ calc.phase[k] = calc.phase[1]

\* a render call with three oscillators muted has taken the phases past
\* the end of a cycle to a point inside the next one
C26_Witness ==
    /\ calc.fn = "voice"
    /\ calc.wrapped
    /\ calc.lvl = <<1, 0, 0, 0>>
    /\ calc.phase[4] = 1
    /\ isVoiceActive(calc.vc)

\* ------------------------------------------------------------------------
\* The indices sampleWavetable reads at
\* ------------------------------------------------------------------------
\* variant: the second sample index is the first plus one
sampleWavetableIndices_NoWrap(wt, phase01, morph) ==
    LET N == wt.tableSize
        F == wt.frames
    IN  IF N <= 1 \/ F <= 0 THEN [used |-> FALSE, a |-> 0, b |-> 0, i0 |-> 0, i1 |-> 0]
        ELSE LET framePos == morph * (F - 1)
                 a  == framePos \div MorphOne
                 idx == phase01 * N
                 i0 == (idx \div PhaseOne) % N
             IN  [used |-> TRUE, a |-> a, b |-> jmin(a + 1, F - 1), i0 |-> i0, i1 |-> i0 + 1]

\* the frame indices a, b (getReadPointer) and the sample indices i0, i1
\* of one sampleWavetable call; used is FALSE when it returns before reading
sampleWavetableIndices(wt, phase01, morph) ==
    LET N == wt.tableSize
        F == wt.frames
    IN  IF N <= 1 \/ F <= 0 THEN [used |-> FALSE, a |-> 0, b |-> 0, i0 |-> 0, i1 |-> 0]
        ELSE LET framePos == morph * (F - 1)
                 a  == framePos \div MorphOne
                 idx == phase01 * N
                 i0 == (idx \div PhaseOne) % N
             IN  [used |-> TRUE, a |-> a, b |-> jmin(a + 1, F - 1), i0 |-> i0,
                  i1 |-> (i0 + 1) % N]

\* values of the morph parameter as morphParam->load() can deliver them,
\* in units of 1/MorphOne: below 0 and above 1 included
MorphLoads == (0 - 2) .. (MorphOne + 2)

IndexCall(wt, phase01, load) ==
    [fn |-> "indices", done |-> FALSE, wt |-> wt, phase01 |-> phase01, load |-> load,
     morph |-> 0, out |-> [used |-> FALSE, a |-> 0, b |-> 0, i0 |-> 0, i1 |-> 0]]

InitIndex ==
    /\ ProcessorInit
    /\ \E wt \in SamplerTables, phase01 \in 0 .. PhaseOne - 1, load \in MorphLoads :
          calc = IndexCall(wt, phase01, load)

\* renderNextBlock: morph = jlimit (0, 1, morphParam->load()), and for a
\* slot with a table of tableSize > 0 and frames > 0,
\* sampleWavetable (*wts[k], phase[k], morph)
sampleWavetableIndicesCall ==
    /\ calc.fn = "indices"
    /\ ~calc.done
    /\ ~calc.wt.isNull /\ calc.wt.tableSize > 0 /\ calc.wt.frames > 0
    /\ LET morph == jlimit(0, MorphOne, calc.load)
       IN  calc' = [calc EXCEPT !.done = TRUE, !.morph = morph,
                        !.out = sampleWavetableIndices(calc.wt, calc.phase01, morph)]

NextIndex ==
    \/ sampleWavetableIndicesCall /\ UNCHANGED <<storeVars, synthVars, heap>>

SpecIndex == InitIndex /\ [][NextIndex]_vars

\* C27: for every stored table (F >= 1, N >= 1), every value of the morph
\* parameter and every phase in [0, 1), the two frame indices the sampler
\* uses lie in 0 .. F-1 and the two sample indices in 0 .. N-1, the second
\* being 0 after N-1.
C27_SamplerIndicesInRange ==
    (calc.fn = "indices" /\ calc.done /\ calc.out.used) =>
        /\ calc.out.a \in 0 .. (calc.wt.frames - 1)
        /\ calc.out.b \in 0 .. (calc.wt.frames - 1)
        /\ calc.out.i0 \in 0 .. (calc.wt.tableSize - 1)
        /\ calc.out.i1 \in 0 .. (calc.wt.tableSize - 1)
        /\ calc.out.i0 = calc.wt.tableSize - 1 => calc.out.i1 = 0

\* a table of three frames read in its last sample with the morph
\* parameter above 1: both frame indices are the last frame, the second
\* sample index is 0
C27_Witness ==
    /\ calc.fn = "indices" /\ calc.done /\ calc.out.used
    /\ calc.load > MorphOne
    /\ calc.wt.frames = 3
    /\ calc.out.a = 2 /\ calc.out.b = 2
    /\ calc.out.i0 = calc.wt.tableSize - 1 /\ calc.out.i1 = 0

\* ------------------------------------------------------------------------
\* Reference counts.  Every new Wavetable gets the next object number;
\* 0 is the null Ptr.  rc is the object's reference count, deleted the
\* number of times it was deleted.  The Ptrs are the entries of wtSlots,
\* the local wt of the load or restore under way and, between
\* getWtSlotsSnapshot and the return of renderNextBlock, the entries of the
\* voice's local array wts.
\* ------------------------------------------------------------------------
MaxObjects == 4
Objects == 1 .. MaxObjects
RefSlots == {0, 1}

\* ReferenceCountedObjectPtr: incIfNotNull
incIfNotNull(c, o) ==
    IF o = 0 THEN c ELSE [c EXCEPT !.rc[o] = @ + 1]

\* ReferenceCountedObjectPtr: decIfNotNull, which deletes the object when
\* the count reaches 0
decIfNotNull(c, o) ==
    IF o = 0 THEN c
    ELSE [c EXCEPT !.rc[o] = @ - 1,
                   !.deleted[o] = IF c.rc[o] - 1 = 0 THEN @ + 1 ELSE @]

RECURSIVE incAll(_, _, _)
incAll(c, ptrs, todo) ==
    IF todo = {} THEN c
    ELSE LET i == CHOOSE j \in todo : TRUE
         IN  incAll(incIfNotNull(c, ptrs[i]), ptrs, todo \ {i})

RECURSIVE decAll(_, _, _)
decAll(c, ptrs, todo) ==
    IF todo = {} THEN c
    ELSE LET i == CHOOSE j \in todo : TRUE
         IN  decAll(decIfNotNull(c, ptrs[i]), ptrs, todo \ {i})

NullPtrs == [i \in RefSlots |-> 0]

\* variant: the snapshot copies the addresses without counting them
copySnapshot_Uncounted(c) ==
    [c EXCEPT !.wts = c.wtSlots]

\* outSlots = wtSlots: each entry of the voice's array, null until then,
\* takes the slot's object and counts it
copySnapshot(c) ==
    [incAll(c, c.wtSlots, RefSlots) EXCEPT !.wts = c.wtSlots]

RefsCall ==
    [fn |-> "refs", done |-> TRUE,
     wtSlots |-> NullPtrs, wts |-> NullPtrs, wt |-> 0, slot |-> 0,
     rc |-> [o \in Objects |-> 0], deleted |-> [o \in Objects |-> 0], made |-> 0,
     lock |-> "free", cpc |-> "idle", apc |-> "idle", replaced |-> 0]

InitRefs ==
    /\ ProcessorInit
    /\ calc = RefsCall

\* loadWtgenSlot / setStateInformation: buildWavetableFromWtgenJson makes
\* a new Wavetable, held by the caller's local wt when it succeeds
newWavetable(slot) ==
    /\ calc.fn = "refs" /\ calc.cpc = "idle"
    /\ calc.made < MaxObjects
    /\ LET o == calc.made + 1
       IN  calc' = [calc EXCEPT !.made = o, !.rc[o] = 1, !.wt = o, !.slot = slot,
                                !.cpc = "built"]

\* the builder fails after it made the Wavetable ("Minimum-phase
\* reconstruction failed"): its Ptr is the only one and goes with it
newWavetableFails ==
    /\ calc.fn = "refs" /\ calc.cpc = "idle"
    /\ calc.made < MaxObjects
    /\ LET o == calc.made + 1
       IN  calc' = decIfNotNull([calc EXCEPT !.made = o, !.rc[o] = 1], o)

\* const juce::SpinLock::ScopedLockType sl (wtLock);  in the loader
storeLock ==
    /\ calc.fn = "refs" /\ calc.cpc = "built"
    /\ calc.lock = "free"
    /\ calc' = [calc EXCEPT !.lock = "ctl", !.cpc = "locked"]

\* wtSlots[slot] = wt;  the new object is counted, then the old one released
storeAssign ==
    /\ calc.fn = "refs" /\ calc.cpc = "locked"
    /\ LET old == calc.wtSlots[calc.slot]
           c1 == incIfNotNull(calc, calc.wt)
           c2 == [c1 EXCEPT !.wtSlots[calc.slot] = calc.wt]
           c3 == decIfNotNull(c2, old)
       IN  calc' = [c3 EXCEPT !.cpc = "stored",
                       !.replaced = IF calc.apc = "samples" /\ old # 0 THEN @ + 1 ELSE @]

\* the end of the locked scope and of the function: the local wt goes
storeReturn ==
    /\ calc.fn = "refs" /\ calc.cpc = "stored"
    /\ calc' = [decIfNotNull(calc, calc.wt) EXCEPT !.wt = 0, !.lock = "free", !.cpc = "idle"]

\* renderNextBlock: getWtSlotsSnapshot takes wtLock
snapshotLock ==
    /\ calc.fn = "refs" /\ calc.apc = "idle"
    /\ calc.lock = "free"
    /\ calc' = [calc EXCEPT !.lock = "audio", !.apc = "locked", !.replaced = 0]

\* getWtSlotsSnapshot: outSlots = wtSlots, end of the locked scope
snapshotCopy ==
    /\ calc.fn = "refs" /\ calc.apc = "locked"
    /\ calc' = [copySnapshot(calc) EXCEPT !.lock = "free", !.apc = "samples"]

\* renderNextBlock returns: the local array wts is destroyed
renderReturn ==
    /\ calc.fn = "refs" /\ calc.apc = "samples"
    /\ calc' = [decAll(calc, calc.wts, RefSlots) EXCEPT !.wts = NullPtrs, !.apc = "idle"]

NextRefs ==
    \/ (\E slot \in RefSlots : newWavetable(slot)) /\ UNCHANGED <<storeVars, synthVars, heap>>
    \/ newWavetableFails /\ UNCHANGED <<storeVars, synthVars, heap>>
    \/ storeLock /\ UNCHANGED <<storeVars, synthVars, heap>>
    \/ storeAssign /\ UNCHANGED <<storeVars, synthVars, heap>>
    \/ storeReturn /\ UNCHANGED <<storeVars, synthVars, heap>>
    \/ snapshotLock /\ UNCHANGED <<storeVars, synthVars, heap>>
    \/ snapshotCopy /\ UNCHANGED <<storeVars, synthVars, heap>>
    \/ renderReturn /\ UNCHANGED <<storeVars, synthVars, heap>>

SpecRefs == InitRefs /\ [][NextRefs]_vars

\* the Ptrs that point to object o
Holders(o) ==
    Cardinality({i \in RefSlots : calc.wtSlots[i] = o})
    + Cardinality({i \in RefSlots : calc.wts[i] = o})
    + (IF calc.wt = o THEN 1 ELSE 0)

\* C28: a table a renderer's snapshot points to is not destroyed while the
\* renderer holds the snapshot, however many loads replace the slot in the
\* meantime; a table is destroyed exactly when the store, the snapshot and
\* the loader's local Ptr no longer point to it, and never twice.
C28_DestroyedWhenLastHolderLeaves ==
    calc.fn = "refs" =>
        \A o \in 1 .. calc.made :
            /\ calc.rc[o] = Holders(o)
            /\ calc.deleted[o] <= 1
            /\ calc.deleted[o] = 1 <=> Holders(o) = 0
            /\ (\E i \in RefSlots : calc.wts[i] = o) => calc.deleted[o] = 0

\* the table of slot 0 was replaced twice while a renderer held its
\* snapshot: the snapshot's table is alive with the snapshot as its only
\* holder, the table stored in between is destroyed
C28_Witness ==
    /\ calc.fn = "refs"
    /\ calc.apc = "samples" /\ calc.cpc = "idle"
    /\ calc.wts[0] = 1 /\ calc.wtSlots[0] = 3
    /\ calc.replaced = 2
    /\ calc.rc[1] = 1 /\ calc.deleted[1] = 0
    /\ calc.deleted[2] = 1

\* ------------------------------------------------------------------------
\* The dimensions of a stored table
\* ------------------------------------------------------------------------
\* loadWtgenSlot over buildWavetableFromWtgenJson: after every successful
\* load the table stored in the slot has the tableSize and the frame count
\* of the header of the payload that was decoded (and one row of
\* tableSize/2 + 1 bins per frame), whether or not the document declares
\* dimensions of its own.
StoredDimensionsAreTheHeaders ==
    (LoadReturned /\ ctl.ok /\ ctl.slot \in Slots) =>
        LET hd == readHeader(ctl.json.data.bytes)
            wt == wtSlots[ctl.slot]
        IN  /\ ~wt.isNull
            /\ wt.tableSize = hd.tableSize
            /\ wt.frames = hd.F
            /\ Len(wt.table) = hd.F
            /\ \A f \in 1 .. hd.F : DOMAIN wt.table[f] = 0 .. (hd.tableSize \div 2)

\* a document that declares no dimensions has been loaded into the last
\* slot, over the table of a document that declared other dimensions than
\* its header's: the slot holds a table of the header's dimensions
StoredDimensionsReplaced ==
    /\ LoadReturned /\ ctl.ok /\ ctl.slot = NumSlots - 1
    /\ ctl.json.tableSize = 0 /\ ctl.json.frames = 0
    /\ ~pre.slots[ctl.slot].isNull
    /\ pre.json[ctl.slot].tableSize > 0
    /\ pre.json[ctl.slot].tableSize # pre.slots[ctl.slot].tableSize
    /\ wtSlots[ctl.slot].tableSize = readHeader(ctl.json.data.bytes).tableSize
    /\ wtSlots[ctl.slot].frames = readHeader(ctl.json.data.bytes).F

\* ------------------------------------------------------------------------
\* wtgen::loadWtgenJsonToWavetable, the loader of the copy of the
\* processor that keeps its helpers in namespace wtgen.  fp holds the
\* dimensions the document declares at program.nodes[0].p (0 where it
\* declares none).  The samples are not modelled: a table is its tableSize
\* and frames fields and the rows and columns of its AudioBuffer.
\* ------------------------------------------------------------------------
FramepackFail(e) ==
    [ok |-> FALSE, err |-> e, wt |-> [tableSize |-> 0, frames |-> 0, rows |-> 0, cols |-> 0]]

\* the read at which a payload shorter than its frames need runs out
truncatedRead(size, H, B) ==
    LET word == ((size - HeaderBytes) % perFrameBytes(H, B)) \div 2
    IN  IF word < H THEN "Framepack: truncado leyendo harmonics."
        ELSE IF word < H + B THEN "Framepack: truncado leyendo noise."
        ELSE "Framepack: truncado leyendo phase-lock."

\* decodeFramepackToWavetable (bytes, size, fp, outFrames, err): the error,
\* or "" when all F frames were decoded
decodeFramepackToWavetable(bytes, fp) ==
    IF Len(bytes) < Len(magic) THEN "Framepack: archivo truncado (sin magic)."
    ELSE IF SubSeq(bytes, 1, Len(magic)) # magic
    THEN "Framepack: magic invalido (no es HNFPv1)."
    ELSE IF Len(bytes) < HeaderBytes THEN "Framepack: header truncado."
    ELSE LET hd == readHeader(bytes)
             N == hd.tableSize
             F == hd.F
         IN  IF N <= 0 \/ F <= 0 THEN "Framepack: dimensiones invalidas."
             ELSE IF ~IsPowerOfTwo(N) THEN "Framepack: tableSize debe ser potencia de 2."
             ELSE IF fp.tableSize > 0 /\ fp.tableSize # N
             THEN "Framepack: tableSize no coincide con JSON."
             ELSE IF fp.frames > 0 /\ fp.frames # F
             THEN "Framepack: frames no coincide con JSON."
             ELSE IF Len(bytes) < expectedMin(F, hd.H, hd.B)
             THEN truncatedRead(Len(bytes), hd.H, hd.B)
             ELSE ErrNone

\* loadWtgenJsonToWavetable (jsonText, outWT, err)
loadWtgenJsonToWavetable(json) ==
    IF json.empty \/ ~json.parses THEN FramepackFail("JSON invalido.")
    ELSE IF json.schema # "wtgen-1"
    THEN FramepackFail("JSON: schema no soportado (se esperaba wtgen-1).")
    ELSE IF json.op # "spectralData"
    THEN FramepackFail("JSON: op no soportado (se esperaba spectralData).")
    ELSE IF json.codec # "harm-noise-framepack-v1"
    THEN FramepackFail("JSON: codec no soportado (se esperaba harm-noise-framepack-v1).")
    ELSE IF json.data.b64 = "missing"
    THEN FramepackFail("JSON: falta nodes[0].p.data (base64).")
    ELSE IF json.data.b64 # "ok" THEN FramepackFail("JSON: base64 invalido.")
    ELSE LET fp == [tableSize |-> json.tableSize, frames |-> json.frames]
             e == decodeFramepackToWavetable(json.data.bytes, fp)
         IN  IF e # ErrNone THEN FramepackFail(e)
             ELSE \* wt->tableSize = fp.tableSize; wt->frames = fp.frames;
                  \* wt->table.setSize (fp.frames, fp.tableSize, ...)
                  [ok |-> TRUE, err |-> ErrNone,
                   wt |-> [tableSize |-> fp.tableSize, frames |-> fp.frames,
                           rows |-> fp.frames, cols |-> fp.tableSize]]

FramepackSizes == {2, 4, 6}
FramepackFrames == {1, 2}
FramepackCounts == {0, 1}
DeclaredSizes == {0, 2, 4}
DeclaredFrames == {0, 1, 2}

FramepackDocs ==
    { DocDeclaring(Cut(Payload(ts, F, H, B), Len(Payload(ts, F, H, B)) - drop), dts, dfr) :
        ts \in FramepackSizes, F \in FramepackFrames, H \in FramepackCounts,
        B \in FramepackCounts, dts \in DeclaredSizes, dfr \in DeclaredFrames,
        drop \in DecodeDrops }
    \cup { [GoodDoc(PayloadA) EXCEPT !.codec = "raw"],
           DocDeclaring(Cut(PayloadA, HeaderBytes - 2), 0, 0),
           DocDeclaring(<<1, 2, 3, 4, 5, 6, 7, 8>>, 0, 0) }

FramepackCall(json) ==
    [fn |-> "framepack", done |-> FALSE, json |-> json, out |-> FramepackFail(ErrNone)]

InitFramepack ==
    /\ ProcessorInit
    /\ \E json \in FramepackDocs : calc = FramepackCall(json)

\* loadWtgenSlot: wtgen::loadWtgenJsonToWavetable (jsonText, wt, err)
loadWtgenJsonToWavetableCall ==
    /\ calc.fn = "framepack"
    /\ ~calc.done
    /\ calc' = [calc EXCEPT !.done = TRUE, !.out = loadWtgenJsonToWavetable(calc.json)]

NextFramepack ==
    \/ loadWtgenJsonToWavetableCall /\ UNCHANGED <<storeVars, synthVars, heap>>

SpecFramepack == InitFramepack /\ [][NextFramepack]_vars

FramepackLoaded == calc.fn = "framepack" /\ calc.done /\ calc.out.ok

\* C29 as stated: after every successful load the table's tableSize and
\* frames are the tableSize and the frame count of the header of the
\* payload that was decoded, also when the document declares neither.
C29_AsStated ==
    FramepackLoaded =>
        /\ calc.out.wt.tableSize = readHeader(calc.json.data.bytes).tableSize
        /\ calc.out.wt.frames = readHeader(calc.json.data.bytes).F

\* where the document declares both dimensions the table has the header's
DeclaredDimensionsAreTheHeaders ==
    (FramepackLoaded /\ calc.json.tableSize > 0 /\ calc.json.frames > 0) =>
        /\ calc.out.wt.tableSize = readHeader(calc.json.data.bytes).tableSize
        /\ calc.out.wt.frames = readHeader(calc.json.data.bytes).F

\* a document that declares no dimensions over a payload of two frames of
\* four samples has been loaded: the table has tableSize 0, no frames and
\* an empty buffer
C29_Witness ==
    /\ FramepackLoaded
    /\ calc.json.tableSize = 0 /\ calc.json.frames = 0
    /\ readHeader(calc.json.data.bytes).tableSize = 4
    /\ readHeader(calc.json.data.bytes).F = 2
    /\ calc.out.wt = [tableSize |-> 0, frames |-> 0, rows |-> 0, cols |-> 0]

\* ------------------------------------------------------------------------
\* The end of a released voice.  SpecVoiceLive is SpecVoice with render
\* calls that keep being made: the audio callback calls renderNextBlock of
\* every voice at every block.
\* ------------------------------------------------------------------------
RenderStep ==
    (\E n \in 1 .. BlockSize, p \in VoiceParamSets : renderNextBlockCall(n, p))
        /\ UNCHANGED <<storeVars, synthVars, heap>>

SpecVoiceLive == InitVoice /\ [][NextVoice]_vars /\ WF_vars(RenderStep)

ReleasedVoice ==
    calc.fn = "voice" /\ isVoiceActive(calc.vc) /\ calc.vc.released

\* C30 as stated: a playing voice that got a note-off with tail-off is
\* freed in the end if render calls keep being made, whatever its phase
\* increment, an increment of 0 included.
C30_AsStated ==
    ReleasedVoice ~> ~isVoiceActive(calc.vc)

\* a released voice whose phase increment is not 0 is freed in the end
FreedWhenIncrementNotZero ==
    (ReleasedVoice /\ calc.phaseDelta[1] # 0) ~> ~isVoiceActive(calc.vc)

\* a voice started at a playback rate of 0 has got its note-off: its
\* envelope is in release and its phase increment is 0
C30_Witness ==
    /\ ReleasedVoice
    /\ calc.vc.adsr = "release"
    /\ calc.phaseDelta[1] = 0

====
